---- MODULE Spec2Model ----
(***************************************************************************)
(* Models of the synchronisation primitives of the repository:             *)
(*   - RCU<T>      (src/sync/rcu.cpp, src/sync/z.cpp)                      *)
(*   - Seqlock<T>  (src/sync/seqlock.cpp)                                  *)
(*   - SPSC<N>     (src/queues/spsc.cpp, src/unnamed/part_000/part_002)    *)
(*   - SPMCMulticast<N> (src/sync/rcu.cpp, src/queues/spmc_multicast.cpp)  *)
(*   - ArenaAllocator   (src/arena-allocator/arena_alloc.cpp)              *)
(* Every atomic load, store, read-modify-write and memcpy of the source is *)
(* one step of the thread that executes it; threads interleave freely.     *)
(***************************************************************************)
EXTENDS Integers, Sequences, FiniteSets, TLC

(***************************************************************************)
(* ------------------------------  State  -------------------------------  *)
(***************************************************************************)

\* RCU<T>, its writer thread and its reader threads
VARIABLES
    heap,          \* heap cell -> the T value stored in it
    live,          \* the heap cells that are allocated and not deleted
    rcu_data,      \* RCU::data, the atomic T*
    reader_count,  \* RCU::reader_count
    r_pc,          \* position of every reader thread
    snapshot,      \* ReadGuard::snapshot of every reader
    first,         \* what *snapshot was when the guard was constructed
    last,          \* result of the guard's latest dereference
    stale,         \* the object the guard points to has been deleted
    w_pc,          \* position of the writer thread
    w_new,         \* new_data of write()/update()
    w_old,         \* old_data of write() / update()
    w_in_update,   \* the writer is inside update()
    current_since, \* the objects that were current since the reader's fetch_add
    replaced,      \* the deleted objects that returned write() calls had replaced
    rcu_alive      \* the RCU has been constructed and not yet destroyed

rcuVars == <<heap, live, rcu_data, reader_count, r_pc, snapshot, first, last, stale,
             w_pc, w_new, w_old, w_in_update, current_since, replaced, rcu_alive>>

\* Seqlock<T>, its writing and reading threads
VARIABLES
    seq,        \* Seqlock::seq
    sl_data,    \* Seqlock::data
    sr_pc,      \* position of every reading thread inside read()
    sr_seq1,    \* read(): seq1
    sr_d1,      \* read(): d1
    sr_ret,     \* value returned by the reader's latest read()
    sw_pc,      \* position of every writing thread inside write()
    sw_seq1,    \* write(): seq1
    sw_new,     \* write(): new_data
    written,    \* the initial value and every value passed to write() so far
    sl_writes,  \* number of write() calls so far
    sr_stores   \* stores to data since the latest load of seq1 by TheReader

slVars == <<seq, sl_data, sr_pc, sr_seq1, sr_d1, sr_ret, sw_pc, sw_seq1, sw_new,
            written, sl_writes, sr_stores>>

\* SPSC<N>, its producer thread and its consumer thread
VARIABLES
    read_idx,   \* SPSC::read_idx
    write_idx,  \* SPSC::write_idx
    buffer,     \* SPSC::buffer, indexed 0 .. N-1
    p_pc,       \* position of the producer inside Push
    p_data,     \* Push: data
    p_write,    \* Push: write
    p_read,     \* Push: read
    p_ret,      \* what the latest Push returned
    p_entry,    \* write_idx and buffer when the latest Push was called
    c_pc,       \* position of the consumer inside Pop
    c_read,     \* Pop: read
    c_write,    \* Pop: write
    c_size,     \* Pop: the bytes of payload_size
    c_payload,  \* Pop: payload
    c_ret,      \* what the latest Pop returned
    p_retry,    \* the Push in progress repeats the one that was rejected
    p_log,      \* <<payload length, result>> of every Push that was not a retry
    pushed,     \* payloads of the Pushes that returned true, in order
    popped      \* payloads returned by Pop, in order

spscVars == <<read_idx, write_idx, buffer, p_pc, p_data, p_write, p_read, p_ret,
              p_entry, p_retry, c_pc, c_read, c_write, c_size, c_payload, c_ret,
              p_log, pushed, popped>>

prodVars == <<p_pc, p_data, p_write, p_read, p_ret, p_entry, p_retry, p_log, pushed>>
consVars == <<c_pc, c_read, c_write, c_size, c_payload, c_ret, popped>>

\* SPSCFixedSize<T, N>, its producer thread and its consumer thread
VARIABLES
    fq_read_idx,   \* SPSCFixedSize::read_idx
    fq_write_idx,  \* SPSCFixedSize::write_idx
    fq_buffer,     \* SPSCFixedSize::buffer, indexed 0 .. FN-1
    fp_pc,         \* position of the producer inside PushOne / PushMany
    fp_data,       \* PushOne / PushMany: data (one element for PushOne)
    fp_write,      \* PushOne / PushMany: write
    fp_read,       \* PushOne / PushMany: read
    fp_i,          \* PushMany: i
    fp_ret,        \* what the latest PushOne / PushMany returned
    fp_entry,      \* write_idx and buffer when the latest push was called
    fp_done,       \* <<function, data.size()>> of the latest push that returned
    fc_pc,         \* position of the consumer inside PopOne / PopMany
    fc_n,          \* PopMany: num_elements
    fc_read,       \* PopOne / PopMany: read
    fc_write,      \* PopOne / PopMany: write
    fc_i,          \* PopMany: i
    fc_payload,    \* PopOne / PopMany: payload (one element for PopOne)
    fc_ret,        \* the T that the latest PopOne returned
    fc_vec,        \* the vector that the latest PopMany returned
    fc_took,       \* the number of elements the latest pop removed
    fc_done,       \* <<function, num_elements>> of the latest pop that returned
    fq_pushed,     \* the elements of the pushes that returned true, in order
    fq_popped      \* the elements removed by pops, in order

fqProdVars == <<fp_pc, fp_data, fp_write, fp_read, fp_i, fp_ret, fp_entry, fp_done,
                fq_pushed>>
fqConsVars == <<fc_pc, fc_n, fc_read, fc_write, fc_i, fc_payload, fc_ret, fc_vec, fc_took,
                fc_done, fq_popped>>
fqVars == <<fq_read_idx, fq_write_idx, fq_buffer, fqProdVars, fqConsVars>>

\* SPMCMulticast<N> and its producer thread
VARIABLES
    mc_read_idx,      \* SPMCMulticast::read_idx
    mc_write_idx,     \* SPMCMulticast::write_idx
    write_local_ctr,  \* SPMCMulticast::write_local_ctr
    mc_buffer,        \* SPMCMulticast::buffer, indexed 0 .. N-1
    mp_pc,            \* position of the producer inside Push
    mp_data,          \* Push: data
    mp_write,         \* Push: write
    mp_read,          \* Push: read
    mp_ret,           \* what the latest Push returned
    mp_entry,         \* <<read_idx, write_idx, write_local_ctr>> when Push was called
    mp_log            \* <<payload_size, result>> of every Push that returned, in order

mcVars == <<mc_read_idx, mc_write_idx, write_local_ctr, mc_buffer, mp_pc, mp_data,
            mp_write, mp_read, mp_ret, mp_entry, mp_log>>

\* ArenaAllocator and the pointers its clients hold
VARIABLES
    current_offset,   \* ArenaAllocator::current_offset
    ar_blocks,        \* the blocks returned and not yet released
    ar_calls          \* the number of calls of allocate made

arVars == <<current_offset, ar_blocks, ar_calls>>

vars == <<rcuVars, slVars, spscVars, fqVars, mcVars, arVars>>

(***************************************************************************)
(* ------------------------------  RCU<T>  ------------------------------  *)
(***************************************************************************)

\* number of reader threads
NumReaders == 2
\* number of heap cells operator new can hand out
NumAddrs == 3
\* field values of T range over 0 .. NumVals-1
NumVals == 2

Readers == 1..NumReaders
Addrs == 1..NumAddrs
FieldVals == 0..(NumVals - 1)

\* T is a two-field object; the writer installs objects whose fields agree
TVals == [a : FieldVals, b : FieldVals]
MkT(v) == [a |-> v, b |-> v]

\* what a cell holds before it is first allocated
Blank == [a |-> 0, b |-> 0]
\* the null pointer
Null == 0
\* a guard that has not been dereferenced yet
NoDeref == [a |-> -1, b |-> -1]

FreeAddrs == Addrs \ live

\* operator new returns cell x: whatever object lay at x before is a different
\* object, so x no longer stands for it in the records of the entering readers
Reallocated(x) ==
    /\ current_since' = [r \in Readers |->
            IF r_pc[r] = "load" THEN current_since[r] \ {x} ELSE current_since[r]]
    /\ replaced' = replaced \ {x}

\* RCU(T* initial_data): data(initial_data), reader_count(0)
RCUInit ==
    /\ heap = [x \in Addrs |-> IF x = 1 THEN MkT(0) ELSE Blank]
    /\ live = {1}
    /\ rcu_data = 1
    /\ reader_count = 0
    /\ r_pc = [r \in Readers |-> "idle"]
    /\ snapshot = [r \in Readers |-> Null]
    /\ first = [r \in Readers |-> NoDeref]
    /\ last = [r \in Readers |-> NoDeref]
    /\ stale = [r \in Readers |-> FALSE]
    /\ w_pc = "idle"
    /\ w_new = Null
    /\ w_old = Null
    /\ w_in_update = FALSE
    /\ current_since = [r \in Readers |-> {}]
    /\ replaced = {}
    /\ rcu_alive = TRUE

\* reader_count.fetch_add(1) and reader_count.fetch_sub(1)
FetchAdd(count) == count + 1
FetchSubTwice(count) == count - 2
FetchSub(count) == count - 1

\* ReadGuard(RCU* r): rcu->reader_count.fetch_add(1)
ReadGuardEnter(r) ==
    /\ rcu_alive
    /\ r_pc[r] = "idle"
    /\ reader_count' = FetchAdd(reader_count)
    /\ r_pc' = [r_pc EXCEPT ![r] = "load"]
    /\ UNCHANGED <<heap, live, rcu_data, snapshot, first, last, stale,
                   w_pc, w_new, w_old, w_in_update>>
    /\ current_since' = [current_since EXCEPT ![r] = {rcu_data}]
    /\ UNCHANGED replaced
    /\ UNCHANGED rcu_alive
    /\ UNCHANGED <<slVars, spscVars, fqVars, mcVars, arVars>>

\* ReadGuard(RCU* r): snapshot = rcu->data.load()
ReadGuardLoad(r) ==
    /\ r_pc[r] = "load"
    /\ snapshot' = [snapshot EXCEPT ![r] = rcu_data]
    /\ first' = [first EXCEPT ![r] = heap[rcu_data]]
    /\ last' = [last EXCEPT ![r] = NoDeref]
    /\ stale' = [stale EXCEPT ![r] = FALSE]
    /\ r_pc' = [r_pc EXCEPT ![r] = "held"]
    /\ UNCHANGED <<heap, live, rcu_data, reader_count, w_pc, w_new, w_old, w_in_update>>
    /\ UNCHANGED <<current_since, replaced>>
    /\ UNCHANGED rcu_alive
    /\ UNCHANGED <<slVars, spscVars, fqVars, mcVars, arVars>>

\* what a dereference of pointer p can yield: the object, or anything at all
\* when the cell has been deleted
DerefResults(p) ==
    IF p \in live THEN {heap[p]} ELSE TVals

\* ReadGuard::operator* / operator->
ReadGuardDeref(r) ==
    /\ r_pc[r] = "held"
    /\ \E v \in DerefResults(snapshot[r]) : last' = [last EXCEPT ![r] = v]
    /\ UNCHANGED <<heap, live, rcu_data, reader_count, r_pc, snapshot, first, stale,
                   w_pc, w_new, w_old, w_in_update>>
    /\ UNCHANGED <<current_since, replaced>>
    /\ UNCHANGED rcu_alive
    /\ UNCHANGED <<slVars, spscVars, fqVars, mcVars, arVars>>

\* ~ReadGuard(): rcu->reader_count.fetch_sub(1)
ReadGuardExit(r) ==
    /\ r_pc[r] = "held"
    /\ reader_count' = FetchSub(reader_count)
    /\ r_pc' = [r_pc EXCEPT ![r] = "idle"]
    /\ snapshot' = [snapshot EXCEPT ![r] = Null]
    /\ first' = [first EXCEPT ![r] = NoDeref]
    /\ last' = [last EXCEPT ![r] = NoDeref]
    /\ stale' = [stale EXCEPT ![r] = FALSE]
    /\ UNCHANGED <<heap, live, rcu_data, w_pc, w_new, w_old, w_in_update>>
    /\ current_since' = [current_since EXCEPT ![r] = {}]
    /\ UNCHANGED replaced
    /\ UNCHANGED rcu_alive
    /\ UNCHANGED <<slVars, spscVars, fqVars, mcVars, arVars>>

\* the caller of write(new_data) allocates the object it passes: new T(v)
WriteCall ==
    /\ rcu_alive
    /\ w_pc = "idle"
    /\ \E x \in FreeAddrs, v \in FieldVals :
          /\ heap' = [heap EXCEPT ![x] = MkT(v)]
          /\ live' = live \cup {x}
          /\ w_new' = x
          /\ Reallocated(x)
    /\ w_pc' = "xchg"
    /\ w_in_update' = FALSE
    /\ UNCHANGED <<rcu_data, reader_count, r_pc, snapshot, first, last, stale, w_old>>
    /\ UNCHANGED rcu_alive
    /\ UNCHANGED <<slVars, spscVars, fqVars, mcVars, arVars>>

\* update(): T* old_data = data.load()
UpdateLoad ==
    /\ rcu_alive
    /\ w_pc = "idle"
    /\ w_old' = rcu_data
    /\ w_pc' = "copy"
    /\ w_in_update' = TRUE
    /\ UNCHANGED <<heap, live, rcu_data, reader_count, r_pc, snapshot, first, last, stale, w_new>>
    /\ UNCHANGED <<current_since, replaced>>
    /\ UNCHANGED rcu_alive
    /\ UNCHANGED <<slVars, spscVars, fqVars, mcVars, arVars>>

\* update() that does not copy: the mutator is applied to *old_data
UpdateCopyInPlace ==
    /\ w_pc = "copy"
    /\ w_new' = w_old
    /\ w_pc' = "mut_a"
    /\ UNCHANGED <<heap, live, rcu_data, reader_count, r_pc, snapshot, first, last,
                   stale, w_old, w_in_update>>
    /\ UNCHANGED <<current_since, replaced>>
    /\ UNCHANGED rcu_alive
    /\ UNCHANGED <<slVars, spscVars, fqVars, mcVars, arVars>>

\* the values new T(*p) can construct
DefaultConstructed(p) == {Blank}
CopyConstructed(p) == DerefResults(p)

\* update(): T* new_data = new T(*old_data)
UpdateCopy ==
    /\ w_pc = "copy"
    /\ \E x \in FreeAddrs, v \in CopyConstructed(w_old) :
          /\ heap' = [heap EXCEPT ![x] = v]
          /\ live' = live \cup {x}
          /\ w_new' = x
          /\ Reallocated(x)
    /\ w_pc' = "mut_a"
    /\ UNCHANGED <<rcu_data, reader_count, r_pc, snapshot, first, last, stale,
                   w_old, w_in_update>>
    /\ UNCHANGED rcu_alive
    /\ UNCHANGED <<slVars, spscVars, fqVars, mcVars, arVars>>

\* the mutator passed to update(): increments both fields, one after the other
Bump(v) == (v + 1) % NumVals

\* update(): func(*new_data), first field
UpdateMutateA ==
    /\ w_pc = "mut_a"
    /\ heap' = [heap EXCEPT ![w_new].a = Bump(@)]
    /\ w_pc' = "mut_b"
    /\ UNCHANGED <<live, rcu_data, reader_count, r_pc, snapshot, first, last, stale,
                   w_new, w_old, w_in_update>>
    /\ UNCHANGED <<current_since, replaced>>
    /\ UNCHANGED rcu_alive
    /\ UNCHANGED <<slVars, spscVars, fqVars, mcVars, arVars>>

\* update(): func(*new_data), second field; then write(new_data) is called
UpdateMutateB ==
    /\ w_pc = "mut_b"
    /\ heap' = [heap EXCEPT ![w_new].b = Bump(@)]
    /\ w_pc' = "xchg"
    /\ UNCHANGED <<live, rcu_data, reader_count, r_pc, snapshot, first, last, stale,
                   w_new, w_old, w_in_update>>
    /\ UNCHANGED <<current_since, replaced>>
    /\ UNCHANGED rcu_alive
    /\ UNCHANGED <<slVars, spscVars, fqVars, mcVars, arVars>>

\* write() that reads data without installing new_data
WriteExchangeLoadOnly ==
    /\ w_pc = "xchg"
    /\ w_old' = rcu_data
    /\ w_pc' = "sync"
    /\ UNCHANGED <<heap, live, rcu_data, reader_count, r_pc, snapshot, first, last,
                   stale, w_new, w_in_update>>
    /\ UNCHANGED <<current_since, replaced>>
    /\ UNCHANGED rcu_alive
    /\ UNCHANGED <<slVars, spscVars, fqVars, mcVars, arVars>>

\* write(): T* old_data = data.exchange(new_data)
WriteExchange ==
    /\ w_pc = "xchg"
    /\ w_old' = rcu_data
    /\ rcu_data' = w_new
    /\ w_pc' = "sync"
    /\ UNCHANGED <<heap, live, reader_count, r_pc, snapshot, first, last, stale,
                   w_new, w_in_update>>
    /\ current_since' = [r \in Readers |->
            IF r_pc[r] = "load" THEN current_since[r] \cup {w_new} ELSE current_since[r]]
    /\ UNCHANGED replaced
    /\ UNCHANGED rcu_alive
    /\ UNCHANGED <<slVars, spscVars, fqVars, mcVars, arVars>>

\* the condition that ends the loop of synchronize() (an unsigned count)
SynchronizeDoneNoWait == TRUE
SynchronizeDone == ~(reader_count > 0)

\* write(): synchronize() returns once the loop condition is false
WriteSynchronize ==
    /\ w_pc = "sync"
    /\ SynchronizeDone
    /\ w_pc' = "del"
    /\ UNCHANGED <<heap, live, rcu_data, reader_count, r_pc, snapshot, first, last, stale,
                   w_new, w_old, w_in_update>>
    /\ UNCHANGED <<current_since, replaced>>
    /\ UNCHANGED rcu_alive
    /\ UNCHANGED <<slVars, spscVars, fqVars, mcVars, arVars>>

\* write(): delete old_data. What a deleted cell holds is indeterminate and is
\* never read (DerefResults): it is represented by Blank
WriteDelete ==
    /\ w_pc = "del"
    /\ live' = live \ {w_old}
    /\ heap' = [heap EXCEPT ![w_old] = Blank]
    /\ stale' = [r \in Readers |->
                    stale[r] \/ (r_pc[r] = "held" /\ snapshot[r] = w_old)]
    /\ w_pc' = "idle"
    /\ w_new' = Null
    /\ w_old' = Null
    /\ w_in_update' = FALSE
    /\ UNCHANGED <<rcu_data, reader_count, r_pc, snapshot, first, last>>
    /\ replaced' = replaced \cup {w_old}
    /\ UNCHANGED current_since
    /\ UNCHANGED rcu_alive
    /\ UNCHANGED <<slVars, spscVars, fqVars, mcVars, arVars>>

(***************************************************************************)

\* what the destructor deletes
DestructorDeletesNothing(p) == {}
DestructorDeletes(p) == {p}

\* ~RCU(): delete data.load(). The owner destroys the RCU when no write() or
\* update() is in progress and no reader is inside a read scope.
RCUDestroy ==
    /\ rcu_alive
    /\ w_pc = "idle"
    /\ \A r \in Readers : r_pc[r] = "idle"
    /\ live' = live \ DestructorDeletes(rcu_data)
    /\ rcu_alive' = FALSE
    /\ UNCHANGED <<heap, rcu_data, reader_count, r_pc, snapshot, first, last, stale,
                   w_pc, w_new, w_old, w_in_update, current_since, replaced>>
    /\ UNCHANGED <<slVars, spscVars, fqVars, mcVars, arVars>>

(* -----------------------------  Seqlock<T>  ---------------------------  *)
(***************************************************************************)

\* number of threads that call read()
NumSLReaders == 2
\* number of threads that may call write()
NumSLWriters == 2
\* write() is called at most this many times
MaxSLWrites == 2
\* the values passed to write() are <<k, k>> for k in 1 .. NumSLVals
NumSLVals == 2

SLReaders == 1..NumSLReaders
SLWriters == 1..NumSLWriters
\* the thread that writes when the single-writer contract is respected
TheWriter == 1
\* the reading thread that is followed when progress is at issue
TheReader == 1

\* T is a two-field value; a default-constructed T is <<0, 0>>
SLInitial == <<0, 0>>
SLInputs == {<<k, k>> : k \in 1..NumSLVals}

\* seq is a std::atomic_uint32_t: its arithmetic is modulo a power of two,
\* here 2^SeqBits
SeqBits == 3
Wrap(x) == x % (2 ^ SeqBits)

\* seq & 1
IsOdd(x) == x % 2 = 1

\* read() has not returned yet
NoRet == <<-1, -1>>

\* every write() adds 2 to seq, so seq holds the same value again after
\* StoreCap writes; the stores a reader may have missed are counted up to
\* that number
StoreCap == 2 ^ (SeqBits - 1)
CountStore(n) == IF n < StoreCap THEN n + 1 ELSE n

\* a value-initialised Seqlock<T>
SLInit ==
    /\ seq = 0
    /\ sl_data = SLInitial
    /\ sr_pc = [r \in SLReaders |-> "idle"]
    /\ sr_seq1 = [r \in SLReaders |-> 0]
    /\ sr_d1 = [r \in SLReaders |-> SLInitial]
    /\ sr_ret = [r \in SLReaders |-> NoRet]
    /\ sw_pc = [w \in SLWriters |-> "idle"]
    /\ sw_seq1 = [w \in SLWriters |-> 0]
    /\ sw_new = [w \in SLWriters |-> SLInitial]
    /\ written = {SLInitial}
    /\ sl_writes = 0
    /\ sr_stores = 0

\* read(): seq1 = seq.load(acquire), on entry and on every retry
SLReadSeq1(r) ==
    /\ sr_pc[r] = "idle"
    /\ sr_seq1' = [sr_seq1 EXCEPT ![r] = seq]
    /\ sr_pc' = [sr_pc EXCEPT ![r] = "data"]
    /\ sr_ret' = [sr_ret EXCEPT ![r] = NoRet]
    /\ UNCHANGED <<seq, sl_data, sr_d1, sw_pc, sw_seq1, sw_new, written, sl_writes>>
    /\ sr_stores' = IF r = TheReader THEN 0 ELSE sr_stores
    /\ UNCHANGED <<rcuVars, spscVars, fqVars, mcVars, arVars>>

\* read(): seq1 = seq.load(acquire) after a failed validation
SLReadRetry(r) ==
    /\ sr_pc[r] = "retry"
    /\ sr_seq1' = [sr_seq1 EXCEPT ![r] = seq]
    /\ sr_pc' = [sr_pc EXCEPT ![r] = "data"]
    /\ UNCHANGED <<seq, sl_data, sr_d1, sr_ret, sw_pc, sw_seq1, sw_new, written,
                   sl_writes>>
    /\ sr_stores' = IF r = TheReader THEN 0 ELSE sr_stores
    /\ UNCHANGED <<rcuVars, spscVars, fqVars, mcVars, arVars>>

\* read(): d1 = data.load(relaxed)
SLReadData(r) ==
    /\ sr_pc[r] = "data"
    /\ sr_d1' = [sr_d1 EXCEPT ![r] = sl_data]
    /\ sr_pc' = [sr_pc EXCEPT ![r] = "seq2"]
    /\ UNCHANGED <<seq, sl_data, sr_seq1, sr_ret, sw_pc, sw_seq1, sw_new, written,
                   sl_writes>>
    /\ UNCHANGED sr_stores
    /\ UNCHANGED <<rcuVars, spscVars, fqVars, mcVars, arVars>>

\* read(): seq1 != seq2
SeqChangedNever(seq1, seq2) == FALSE
SeqChanged(seq1, seq2) == seq1 # seq2

\* read(): the loop condition, true when the iteration must be repeated
ReadMustRetryEven(seq1, seq2) == seq1 # seq2 \/ ~IsOdd(seq1)
ReadMustRetry(seq1, seq2) == SeqChanged(seq1, seq2) \/ IsOdd(seq1)

\* read(): seq2 = seq.load(relaxed); loop or return d1. After this step seq1
\* and d1 are dead (assigned again before they are read, or out of scope):
\* they are set back to their first values
SLReadSeq2(r) ==
    /\ sr_pc[r] = "seq2"
    /\ IF ReadMustRetry(sr_seq1[r], seq)
          THEN /\ sr_pc' = [sr_pc EXCEPT ![r] = "retry"]
               /\ UNCHANGED sr_ret
          ELSE /\ sr_pc' = [sr_pc EXCEPT ![r] = "idle"]
               /\ sr_ret' = [sr_ret EXCEPT ![r] = sr_d1[r]]
    /\ sr_seq1' = [sr_seq1 EXCEPT ![r] = 0]
    /\ sr_d1' = [sr_d1 EXCEPT ![r] = SLInitial]
    /\ UNCHANGED <<seq, sl_data, sw_pc, sw_seq1, sw_new, written, sl_writes>>
    /\ sr_stores' = IF r = TheReader THEN 0 ELSE sr_stores
    /\ UNCHANGED <<rcuVars, spscVars, fqVars, mcVars, arVars>>

\* write(new_data): uint32_t seq1 = seq.load()
SLWriteLoad(w) ==
    /\ sw_pc[w] = "idle"
    /\ sl_writes < MaxSLWrites
    /\ \E v \in SLInputs :
          /\ sw_new' = [sw_new EXCEPT ![w] = v]
          /\ written' = written \cup {v}
    /\ sw_seq1' = [sw_seq1 EXCEPT ![w] = seq]
    /\ sw_pc' = [sw_pc EXCEPT ![w] = "cas"]
    /\ sl_writes' = sl_writes + 1
    /\ UNCHANGED <<seq, sl_data, sr_pc, sr_seq1, sr_d1, sr_ret>>
    /\ UNCHANGED sr_stores
    /\ UNCHANGED <<rcuVars, spscVars, fqVars, mcVars, arVars>>

\* write(new_data): uint32_t seq1 = seq.load(), in a call beyond the first
\* MaxSLWrites, which are no longer counted
SLWriteLoadMore(w) ==
    /\ sw_pc[w] = "idle"
    /\ sl_writes = MaxSLWrites
    /\ \E v \in SLInputs :
          /\ sw_new' = [sw_new EXCEPT ![w] = v]
          /\ written' = written \cup {v}
    /\ sw_seq1' = [sw_seq1 EXCEPT ![w] = seq]
    /\ sw_pc' = [sw_pc EXCEPT ![w] = "cas"]
    /\ UNCHANGED <<seq, sl_data, sr_pc, sr_seq1, sr_d1, sr_ret, sl_writes>>
    /\ UNCHANGED sr_stores
    /\ UNCHANGED <<rcuVars, spscVars, fqVars, mcVars, arVars>>

\* write(): the value the compare-exchange installs, seq1+1
LockedSeqEven(seq1) == Wrap(seq1 + 2)
LockedSeq(seq1) == Wrap(seq1 + 1)

\* write(): the value of the final store, seq1 + 2
UnlockedSeqOdd(seq1) == Wrap(seq1 + 1)
UnlockedSeq(seq1) == Wrap(seq1 + 2)

\* seq.compare_exchange_weak(seq1, ...) exchanges when seq holds seq1
CasSucceedsStale(cur, seq1) == TRUE
CasSucceeds(cur, seq1) == cur = seq1

\* write(): one evaluation of
\*   while (seq1 & 1 || !seq.compare_exchange_weak(seq1, seq1+1)) {}
\* when seq1 is odd the exchange is not attempted and seq1 keeps its value
SLWriteCas(w) ==
    /\ sw_pc[w] = "cas"
    /\ IF IsOdd(sw_seq1[w])
          THEN UNCHANGED <<seq, sw_seq1, sw_pc>>
          ELSE IF CasSucceeds(seq, sw_seq1[w])
                  THEN /\ seq' = LockedSeq(sw_seq1[w])
                       /\ sw_pc' = [sw_pc EXCEPT ![w] = "store"]
                       /\ UNCHANGED sw_seq1
                  ELSE /\ sw_seq1' = [sw_seq1 EXCEPT ![w] = seq]
                       /\ UNCHANGED <<seq, sw_pc>>
    /\ UNCHANGED <<sl_data, sr_pc, sr_seq1, sr_d1, sr_ret, sw_new, written, sl_writes>>
    /\ UNCHANGED sr_stores
    /\ UNCHANGED <<rcuVars, spscVars, fqVars, mcVars, arVars>>

\* std::atomic<T>::operator=: the whole value is replaced in one store
StoreTHalf(old, new) == <<new[1], old[2]>>
StoreT(old, new) == new

\* write(): data = new_data
SLWriteData(w) ==
    /\ sw_pc[w] = "store"
    /\ sl_data' = StoreT(sl_data, sw_new[w])
    /\ sw_pc' = [sw_pc EXCEPT ![w] = "unlock"]
    /\ UNCHANGED <<seq, sr_pc, sr_seq1, sr_d1, sr_ret, sw_seq1, sw_new, written,
                   sl_writes>>
    /\ sr_stores' = IF sr_pc[TheReader] \in {"data", "seq2"}
                       THEN CountStore(sr_stores) ELSE sr_stores
    /\ UNCHANGED <<rcuVars, spscVars, fqVars, mcVars, arVars>>

\* write(): seq = seq1 + 2; the locals go out of scope
SLWriteSeq(w) ==
    /\ sw_pc[w] = "unlock"
    /\ seq' = UnlockedSeq(sw_seq1[w])
    /\ sw_pc' = [sw_pc EXCEPT ![w] = "idle"]
    /\ sw_seq1' = [sw_seq1 EXCEPT ![w] = 0]
    /\ sw_new' = [sw_new EXCEPT ![w] = SLInitial]
    /\ UNCHANGED <<sl_data, sr_pc, sr_seq1, sr_d1, sr_ret, written, sl_writes>>
    /\ UNCHANGED sr_stores
    /\ UNCHANGED <<rcuVars, spscVars, fqVars, mcVars, arVars>>

(***************************************************************************)
(* ------------------------------  SPSC<N>  -----------------------------  *)
(***************************************************************************)

\* capacity of the queue in bytes: SPSC<16>
N == 16
\* sizeof(size_t)
HEADER_SIZE == 8

\* Push is called at most this many times
MaxPushes == 3
\* payloads of 0 .. MaxLen bytes, and the two lengths around the capacity
MaxLen == 2
\* payloads of one length differ by their tag
NumTags == 1

Min(x, y) == IF x < y THEN x ELSE y

\* the payload of len bytes with tag t: bytes that differ from each other, from
\* the bytes of the other tags and from the zeroes of the fresh buffer
Payload(len, t) == [i \in 1..len |-> ((t + 1) * i) % 256]
Payloads ==
    {Payload(len, t) : len \in 0..MaxLen, t \in 0..(NumTags - 1)}
        \cup {Payload(N - HEADER_SIZE, 0), Payload(N - HEADER_SIZE + 1, 0)}

\* sizes from HugeSize on are all represented by HugeSize: they exceed every
\* counter value, so the comparisons of Pop treat them alike
HugeSize == 1048576

\* the value of a size_t given its object representation (little endian)
RECURSIVE DecodeSize(_)
DecodeSize(bytes) ==
    IF bytes = <<>> THEN 0
    ELSE Min(HugeSize, Head(bytes) + 256 * DecodeSize(Tail(bytes)))

\* the first k bytes of the object representation of the size_t n
RECURSIVE SizeBytes(_, _)
SizeBytes(n, k) ==
    IF k = 0 THEN <<>> ELSE <<n % 256>> \o SizeBytes(n \div 256, k - 1)
EncodeSize(n) == SizeBytes(n, HEADER_SIZE)

\* std::memcpy(buffer.data() + dst, src + from, cnt); src is indexed from 1
MemcpyIn(buf, dst, src, from, cnt) ==
    [i \in 0..(N - 1) |->
        IF dst <= i /\ i < dst + cnt THEN src[from + (i - dst) + 1] ELSE buf[i]]

\* std::memcpy(dst + to, buffer.data() + from, cnt); dst is indexed from 1
MemcpyOut(dst, to, buf, from, cnt) ==
    [i \in 1..Len(dst) |->
        IF to < i /\ i <= to + cnt THEN buf[from + (i - to) - 1] ELSE dst[i]]

\* CopyIn / CopyOut: size_t start = offset % N
CopyStart(offset) == offset % N
\* CopyIn / CopyOut: size_t first = std::min(len, N - start)
CopyFirst(offset, len) == Min(len, N - CopyStart(offset))

\* CopyIn: the memcpy up to the end of the array
CopyInFirst(buf, offset, src, len) ==
    MemcpyIn(buf, CopyStart(offset), src, 0, CopyFirst(offset, len))
\* CopyIn: the memcpy of the remainder to the start of the array
CopyInRestNoWrap(buf, offset, src, len) == buf
CopyInRest(buf, offset, src, len) ==
    MemcpyIn(buf, 0, src, CopyFirst(offset, len), len - CopyFirst(offset, len))

\* CopyOut: the memcpy up to the end of the array
CopyOutFirst(dst, buf, offset, len) ==
    MemcpyOut(dst, 0, buf, CopyStart(offset), CopyFirst(offset, len))
\* CopyOut: the memcpy of the remainder from the start of the array
CopyOutRest(dst, buf, offset, len) ==
    MemcpyOut(dst, CopyFirst(offset, len), buf, 0, len - CopyFirst(offset, len))

\* CopyIn / CopyOut: if (len > first)
CopyWraps(offset, len) == len > CopyFirst(offset, len)

\* Push: total_size = HEADER_SIZE + payload_size
TotalSize(payload_size) == HEADER_SIZE + payload_size

\* Push: if (total_size > N) return false, negated
FitsAtAll(total) == ~(total > N)

\* Push: if (used + total_size > N) return false, negated
HasRoomIgnoringUsed(used, total) == ~(total > N)
HasRoomPayloadOnly(used, total) == ~(used + (total - HEADER_SIZE) > N)
HasRoomStrict(used, total) == ~(used + total >= N)
HasRoom(used, total) == ~(used + total > N)

\* Push: size_t used = write - read
UsedModN(write, read) == (write - read) % N
UsedIgnoringRead(write, read) == write
Used(write, read) == write - read

\* Push: write_idx.store(write + total_size)
NextWriteModN(write, total) == (write + total) % N
NextWrite(write, total) == write + total

\* Pop: if (read == write) return std::nullopt
IsEmpty(read, write) == read = write

\* Pop: if (read + total_size > write) return std::nullopt
IsIncompleteStrict(read, total, write) == read + total >= write
IsIncomplete(read, total, write) == read + total > write

\* Pop: read_idx.store(read + total_size)
NextReadNoHeader(read, payload_size) == read + payload_size
NextRead(read, payload_size) == read + TotalSize(payload_size)

\* std::optional<std::vector<std::byte>>: std::nullopt or a payload;
\* Pending stands for the result of a Pop that has not returned
NullOpt == <<"nullopt", <<>>>>
Some(payload) == <<"value", payload>>
Pending == <<"pending", <<>>>>

\* Pop: what is returned for an empty queue
EmptyResultVector == Some(<<>>)
EmptyResult == NullOpt

ZeroBytes(len) == [i \in 1..len |-> 0]

\* read_idx{0}, write_idx{0}, buffer{}
SPSCInit ==
    /\ read_idx = 0
    /\ write_idx = 0
    /\ buffer = [i \in 0..(N - 1) |-> 0]
    /\ p_pc = "idle"
    /\ p_data = <<>>
    /\ p_write = 0
    /\ p_read = 0
    /\ p_ret = FALSE
    /\ p_entry = <<0, [i \in 0..(N - 1) |-> 0]>>
    /\ p_retry = FALSE
    /\ c_pc = "idle"
    /\ c_read = 0
    /\ c_write = 0
    /\ c_size = ZeroBytes(HEADER_SIZE)
    /\ c_payload = <<>>
    /\ c_ret = Pending
    /\ p_log = <<>>
    /\ pushed = <<>>
    /\ popped = <<>>

\* Push returns result: the producer is idle again
PushReturn(result) ==
    /\ p_pc' = "idle"
    /\ p_ret' = result
    /\ p_log' = IF p_retry THEN p_log ELSE Append(p_log, <<Len(p_data), result>>)

\* the producer calls Push(data)
PushCall ==
    /\ p_pc = "idle"
    /\ Len(p_log) < MaxPushes
    /\ \E d \in Payloads : p_data' = d
    /\ p_pc' = "size"
    /\ p_entry' = <<write_idx, buffer>>
    /\ p_retry' = FALSE
    /\ UNCHANGED <<read_idx, write_idx, buffer, p_write, p_read, p_ret, p_log, pushed>>
    /\ UNCHANGED consVars
    /\ UNCHANGED <<rcuVars, slVars, fqVars, mcVars, arVars>>

\* a one-byte message, whose frame leaves the indices unaligned so that later
\* frames wrap around the end of the array, and the longest message that fits
\* the queue: progress depends on the sizes of the frames only, not on their
\* contents
ExtremePayloads == {Payload(1, 0), Payload(N - HEADER_SIZE, 0)}

\* the producer calls Push(data) with one of the extreme messages
PushCallExtreme ==
    /\ p_pc = "idle"
    /\ Len(p_log) < MaxPushes
    /\ \E d \in ExtremePayloads : p_data' = d
    /\ p_pc' = "size"
    /\ p_entry' = <<write_idx, buffer>>
    /\ p_retry' = FALSE
    /\ UNCHANGED <<read_idx, write_idx, buffer, p_write, p_read, p_ret, p_log, pushed>>
    /\ UNCHANGED consVars
    /\ UNCHANGED <<rcuVars, slVars, fqVars, mcVars, arVars>>

\* the latest Push was rejected for lack of free space: its message fits
\* an empty queue
RejectedForSpace ==
    /\ p_pc = "idle"
    /\ p_log # <<>>
    /\ ~p_ret
    /\ FitsAtAll(TotalSize(Len(p_data)))

\* the producer calls Push again with the data that was rejected for lack of
\* free space
PushRetry ==
    /\ RejectedForSpace
    /\ p_pc' = "size"
    /\ p_entry' = <<write_idx, buffer>>
    /\ p_retry' = TRUE
    /\ UNCHANGED <<read_idx, write_idx, buffer, p_data, p_write, p_read, p_ret, p_log,
                   pushed>>
    /\ UNCHANGED consVars
    /\ UNCHANGED <<rcuVars, slVars, fqVars, mcVars, arVars>>

\* Push: if (total_size > N) return false; write = write_idx.load(relaxed)
PushLoadWrite ==
    /\ p_pc = "size"
    /\ IF FitsAtAll(TotalSize(Len(p_data)))
          THEN /\ p_write' = write_idx
               /\ p_pc' = "read"
               /\ UNCHANGED <<p_ret, p_log>>
          ELSE /\ PushReturn(FALSE)
               /\ UNCHANGED p_write
    /\ UNCHANGED <<read_idx, write_idx, buffer, p_data, p_read, p_entry, pushed>>
    /\ UNCHANGED p_retry
    /\ UNCHANGED consVars
    /\ UNCHANGED <<rcuVars, slVars, fqVars, mcVars, arVars>>

\* Push: read = read_idx.load(acquire); used = write - read;
\*       if (used + total_size > N) return false
PushLoadRead ==
    /\ p_pc = "read"
    /\ p_read' = read_idx
    /\ IF HasRoom(Used(p_write, read_idx), TotalSize(Len(p_data)))
          THEN /\ p_pc' = "hdr"
               /\ UNCHANGED <<p_ret, p_log>>
          ELSE PushReturn(FALSE)
    /\ UNCHANGED <<read_idx, write_idx, buffer, p_data, p_write, p_entry, pushed>>
    /\ UNCHANGED p_retry
    /\ UNCHANGED consVars
    /\ UNCHANGED <<rcuVars, slVars, fqVars, mcVars, arVars>>

\* Push that stores write_idx before the payload has been copied in
PushCopyHeaderPublishing ==
    /\ p_pc = "hdr"
    /\ buffer' = CopyInFirst(buffer, p_write % N, EncodeSize(Len(p_data)), HEADER_SIZE)
    /\ write_idx' = p_write + TotalSize(Len(p_data))
    /\ p_pc' = IF CopyWraps(p_write % N, HEADER_SIZE) THEN "hdr2" ELSE "pay"
    /\ UNCHANGED <<read_idx, p_data, p_write, p_read, p_ret, p_entry, p_log, pushed>>
    /\ UNCHANGED p_retry
    /\ UNCHANGED consVars
    /\ UNCHANGED <<rcuVars, slVars, fqVars, mcVars, arVars>>

\* Push: CopyIn(offset, &payload_size, HEADER_SIZE), first memcpy
PushCopyHeader ==
    /\ p_pc = "hdr"
    /\ buffer' = CopyInFirst(buffer, p_write % N, EncodeSize(Len(p_data)), HEADER_SIZE)
    /\ p_pc' = IF CopyWraps(p_write % N, HEADER_SIZE) THEN "hdr2" ELSE "pay"
    /\ UNCHANGED <<read_idx, write_idx, p_data, p_write, p_read, p_ret, p_entry,
                   p_log, pushed>>
    /\ UNCHANGED p_retry
    /\ UNCHANGED consVars
    /\ UNCHANGED <<rcuVars, slVars, fqVars, mcVars, arVars>>

\* Push: CopyIn(offset, &payload_size, HEADER_SIZE), second memcpy
PushCopyHeaderWrap ==
    /\ p_pc = "hdr2"
    /\ buffer' = CopyInRest(buffer, p_write % N, EncodeSize(Len(p_data)), HEADER_SIZE)
    /\ p_pc' = "pay"
    /\ UNCHANGED <<read_idx, write_idx, p_data, p_write, p_read, p_ret, p_entry,
                   p_log, pushed>>
    /\ UNCHANGED p_retry
    /\ UNCHANGED consVars
    /\ UNCHANGED <<rcuVars, slVars, fqVars, mcVars, arVars>>

\* Push: CopyIn(offset + HEADER_SIZE, data.data(), payload_size), first memcpy
PushCopyPayload ==
    /\ p_pc = "pay"
    /\ buffer' = CopyInFirst(buffer, (p_write % N) + HEADER_SIZE, p_data, Len(p_data))
    /\ p_pc' = IF CopyWraps((p_write % N) + HEADER_SIZE, Len(p_data))
                 THEN "pay2" ELSE "publish"
    /\ UNCHANGED <<read_idx, write_idx, p_data, p_write, p_read, p_ret, p_entry,
                   p_log, pushed>>
    /\ UNCHANGED p_retry
    /\ UNCHANGED consVars
    /\ UNCHANGED <<rcuVars, slVars, fqVars, mcVars, arVars>>

\* Push: CopyIn(offset + HEADER_SIZE, data.data(), payload_size), second memcpy
PushCopyPayloadWrap ==
    /\ p_pc = "pay2"
    /\ buffer' = CopyInRest(buffer, (p_write % N) + HEADER_SIZE, p_data, Len(p_data))
    /\ p_pc' = "publish"
    /\ UNCHANGED <<read_idx, write_idx, p_data, p_write, p_read, p_ret, p_entry,
                   p_log, pushed>>
    /\ UNCHANGED p_retry
    /\ UNCHANGED consVars
    /\ UNCHANGED <<rcuVars, slVars, fqVars, mcVars, arVars>>

\* Push: write_idx.store(write + total_size, release); return true
PushStore ==
    /\ p_pc = "publish"
    /\ write_idx' = NextWrite(p_write, TotalSize(Len(p_data)))
    /\ pushed' = Append(pushed, p_data)
    /\ PushReturn(TRUE)
    /\ UNCHANGED <<read_idx, buffer, p_data, p_write, p_read, p_entry>>
    /\ UNCHANGED p_retry
    /\ UNCHANGED consVars
    /\ UNCHANGED <<rcuVars, slVars, fqVars, mcVars, arVars>>

\* Pop returns result: the consumer is idle again
PopReturn(result) ==
    /\ c_pc' = "idle"
    /\ c_ret' = result

\* the consumer calls Pop(): read = read_idx.load(relaxed)
PopCall ==
    /\ c_pc = "idle"
    /\ c_read' = read_idx
    /\ c_size' = ZeroBytes(HEADER_SIZE)
    /\ c_payload' = <<>>
    /\ c_ret' = Pending
    /\ c_pc' = "write"
    /\ UNCHANGED <<read_idx, write_idx, buffer, c_write, popped>>
    /\ UNCHANGED prodVars
    /\ UNCHANGED <<rcuVars, slVars, fqVars, mcVars, arVars>>

\* Pop: write = write_idx.load(acquire); if (read == write) return std::nullopt
PopLoadWrite ==
    /\ c_pc = "write"
    /\ c_write' = write_idx
    /\ IF IsEmpty(c_read, write_idx)
          THEN PopReturn(EmptyResult)
          ELSE /\ c_pc' = "hdr"
               /\ UNCHANGED c_ret
    /\ UNCHANGED <<read_idx, write_idx, buffer, c_read, c_size, c_payload, popped>>
    /\ UNCHANGED prodVars
    /\ UNCHANGED <<rcuVars, slVars, fqVars, mcVars, arVars>>

\* Pop, once payload_size has been copied out:
\*   if (read + total_size > write) return std::nullopt;
\*   std::vector<std::byte> payload(payload_size); if (payload_size > 0) ...
PopHeaderDone(size) ==
    IF IsIncomplete(c_read, TotalSize(DecodeSize(size)), c_write)
      THEN /\ PopReturn(NullOpt)
           /\ UNCHANGED c_payload
      ELSE /\ c_payload' = ZeroBytes(DecodeSize(size))
           /\ c_pc' = IF DecodeSize(size) > 0 THEN "pay" ELSE "store"
           /\ UNCHANGED c_ret

\* Pop: CopyOut(offset, &payload_size, HEADER_SIZE), first memcpy
PopCopyHeader ==
    /\ c_pc = "hdr"
    /\ c_size' = CopyOutFirst(c_size, buffer, c_read % N, HEADER_SIZE)
    /\ IF CopyWraps(c_read % N, HEADER_SIZE)
          THEN /\ c_pc' = "hdr2"
               /\ UNCHANGED <<c_payload, c_ret>>
          ELSE PopHeaderDone(c_size')
    /\ UNCHANGED <<read_idx, write_idx, buffer, c_read, c_write, popped>>
    /\ UNCHANGED prodVars
    /\ UNCHANGED <<rcuVars, slVars, fqVars, mcVars, arVars>>

\* Pop: CopyOut(offset, &payload_size, HEADER_SIZE), second memcpy
PopCopyHeaderWrap ==
    /\ c_pc = "hdr2"
    /\ c_size' = CopyOutRest(c_size, buffer, c_read % N, HEADER_SIZE)
    /\ PopHeaderDone(c_size')
    /\ UNCHANGED <<read_idx, write_idx, buffer, c_read, c_write, popped>>
    /\ UNCHANGED prodVars
    /\ UNCHANGED <<rcuVars, slVars, fqVars, mcVars, arVars>>

\* Pop: CopyOut(offset + HEADER_SIZE, payload.data(), payload_size), first memcpy
PopCopyPayload ==
    /\ c_pc = "pay"
    /\ c_payload' = CopyOutFirst(c_payload, buffer, (c_read % N) + HEADER_SIZE,
                                 DecodeSize(c_size))
    /\ c_pc' = IF CopyWraps((c_read % N) + HEADER_SIZE, DecodeSize(c_size))
                 THEN "pay2" ELSE "store"
    /\ UNCHANGED <<read_idx, write_idx, buffer, c_read, c_write, c_size, c_ret, popped>>
    /\ UNCHANGED prodVars
    /\ UNCHANGED <<rcuVars, slVars, fqVars, mcVars, arVars>>

\* Pop: CopyOut(offset + HEADER_SIZE, payload.data(), payload_size), second memcpy
PopCopyPayloadWrap ==
    /\ c_pc = "pay2"
    /\ c_payload' = CopyOutRest(c_payload, buffer, (c_read % N) + HEADER_SIZE,
                                DecodeSize(c_size))
    /\ c_pc' = "store"
    /\ UNCHANGED <<read_idx, write_idx, buffer, c_read, c_write, c_size, c_ret, popped>>
    /\ UNCHANGED prodVars
    /\ UNCHANGED <<rcuVars, slVars, fqVars, mcVars, arVars>>

\* Pop: read_idx.store(read + total_size, release); return payload
PopStore ==
    /\ c_pc = "store"
    /\ read_idx' = NextRead(c_read, DecodeSize(c_size))
    /\ popped' = Append(popped, c_payload)
    /\ PopReturn(Some(c_payload))
    /\ UNCHANGED <<write_idx, buffer, c_read, c_write, c_size, c_payload>>
    /\ UNCHANGED prodVars
    /\ UNCHANGED <<rcuVars, slVars, fqVars, mcVars, arVars>>

(***************************************************************************)
(* -------------------------  SPSCFixedSize<T, N>  ----------------------  *)
(***************************************************************************)

\* capacity of the queue in elements: SPSCFixedSize<int, 4>
FN == 4

\* PushMany is called with 0 .. MaxSpan elements (or FN + 1), PopMany with
\* num_elements in 0 .. MaxSpan
MaxSpan == 2
\* the pushes that succeed carry at most this many elements in total
MaxFQElems == 6

\* T{}: a value-initialised int
DefaultT == 0

\* The queue never inspects its elements, so the producer offers ints that all
\* differ: the k-th element queued is the int k-1, the first one equals T{}.
NextElems(len) == [i \in 1..len |-> Len(fq_pushed) + i - 1]

\* the sizes of the spans PushMany is called with
SpanSizes == (0..MaxSpan) \cup {FN + 1}

\* PushOne: if (used + 1 > N) return false, negated;
\* PushMany: if (used + data.size() > N) return false, negated
FQHasRoomModN(write, read, count) == ~(((write - read) % FN) + count > FN)
FQHasRoom(write, read, count) == ~((write - read) + count > FN)

\* PopMany: if (read + num_elements > write), the incomplete-write test
FQTooFewOffByOne(read, count, write) == read + count > write + 1
FQTooFew(read, count, write) == read + count > write

\* PushOne / PushMany / PopOne / PopMany: size_t offset = (idx + i) % N
FQOffsetNoWrap(idx, i) == IF idx + i < FN THEN idx + i ELSE FN - 1
FQOffset(idx, i) == (idx + i) % FN

\* PopOne: what is returned when read == write
FQEmptyResult == DefaultT

\* read_idx{0}, write_idx{0}, buffer{}
FQInit ==
    /\ fq_read_idx = 0
    /\ fq_write_idx = 0
    /\ fq_buffer = [i \in 0..(FN - 1) |-> DefaultT]
    /\ fp_pc = "idle"
    /\ fp_data = <<>>
    /\ fp_write = 0
    /\ fp_read = 0
    /\ fp_i = 0
    /\ fp_ret = FALSE
    /\ fp_entry = <<0, [i \in 0..(FN - 1) |-> DefaultT]>>
    /\ fp_done = <<"none", 0>>
    /\ fc_pc = "idle"
    /\ fc_n = 0
    /\ fc_read = 0
    /\ fc_write = 0
    /\ fc_i = 0
    /\ fc_payload = <<>>
    /\ fc_ret = DefaultT
    /\ fc_vec = <<>>
    /\ fc_took = 0
    /\ fc_done = <<"none", 0>>
    /\ fq_pushed = <<>>
    /\ fq_popped = <<>>

\* a push returns result: the producer is idle again, its locals are gone
FQPushReturn(result) ==
    /\ fp_pc' = "idle"
    /\ fp_ret' = result
    /\ fp_data' = <<>>
    /\ fp_write' = 0
    /\ fp_read' = 0
    /\ fp_i' = 0
    /\ fp_entry' = <<0, [i \in 0..(FN - 1) |-> DefaultT]>>
    /\ fp_done' = <<IF fp_pc \in {"one_read", "one_pub"} THEN "PushOne" ELSE "PushMany",
                    Len(fp_data)>>

\* PushOne(data): size_t write = write_idx.load(relaxed)
PushOneCall ==
    /\ fp_pc = "idle"
    /\ Len(fq_pushed) + 1 <= MaxFQElems
    /\ fp_data' = NextElems(1)
    /\ fp_write' = fq_write_idx
    /\ fp_entry' = <<fq_write_idx, fq_buffer>>
    /\ fp_pc' = "one_read"
    /\ UNCHANGED <<fq_read_idx, fq_write_idx, fq_buffer, fp_read, fp_i, fp_ret, fp_done,
                   fq_pushed>>
    /\ UNCHANGED fqConsVars
    /\ UNCHANGED <<rcuVars, slVars, spscVars, mcVars, arVars>>

\* PushOne: read = read_idx.load(acquire); if (used + 1 > N) return false
PushOneLoadRead ==
    /\ fp_pc = "one_read"
    /\ IF FQHasRoom(fp_write, fq_read_idx, 1)
          THEN /\ fp_pc' = "one_copy"
               /\ fp_read' = fq_read_idx
               /\ UNCHANGED <<fp_ret, fp_i, fp_data, fp_write, fp_entry, fp_done>>
          ELSE FQPushReturn(FALSE)
    /\ UNCHANGED <<fq_read_idx, fq_write_idx, fq_buffer, fq_pushed>>
    /\ UNCHANGED fqConsVars
    /\ UNCHANGED <<rcuVars, slVars, spscVars, mcVars, arVars>>

\* PushOne: buffer[write % N] = data
PushOneCopy ==
    /\ fp_pc = "one_copy"
    /\ fq_buffer' = [fq_buffer EXCEPT ![FQOffset(fp_write, 0)] = fp_data[1]]
    /\ fp_pc' = "one_pub"
    /\ UNCHANGED <<fq_read_idx, fq_write_idx, fp_data, fp_write, fp_read, fp_i, fp_ret,
                   fp_entry, fp_done, fq_pushed>>
    /\ UNCHANGED fqConsVars
    /\ UNCHANGED <<rcuVars, slVars, spscVars, mcVars, arVars>>

\* PushOne: write_idx.fetch_add(1, release); return true
PushOnePublish ==
    /\ fp_pc = "one_pub"
    /\ fq_write_idx' = fq_write_idx + 1
    /\ fq_pushed' = fq_pushed \o fp_data
    /\ FQPushReturn(TRUE)
    /\ UNCHANGED <<fq_read_idx, fq_buffer>>
    /\ UNCHANGED fqConsVars
    /\ UNCHANGED <<rcuVars, slVars, spscVars, mcVars, arVars>>

\* PushMany(data): size_t write = write_idx.load(relaxed)
PushManyCall ==
    /\ fp_pc = "idle"
    /\ \E len \in SpanSizes :
          /\ Len(fq_pushed) + len <= MaxFQElems
          /\ fp_data' = NextElems(len)
    /\ fp_write' = fq_write_idx
    /\ fp_entry' = <<fq_write_idx, fq_buffer>>
    /\ fp_pc' = "many_read"
    /\ UNCHANGED <<fq_read_idx, fq_write_idx, fq_buffer, fp_read, fp_i, fp_ret, fp_done,
                   fq_pushed>>
    /\ UNCHANGED fqConsVars
    /\ UNCHANGED <<rcuVars, slVars, spscVars, mcVars, arVars>>

\* PushMany: read = read_idx.load(acquire);
\*           if (used + data.size() > N) return false; the for loop is entered
PushManyLoadRead ==
    /\ fp_pc = "many_read"
    /\ IF FQHasRoom(fp_write, fq_read_idx, Len(fp_data))
          THEN /\ fp_pc' = IF 0 < Len(fp_data) THEN "many_copy" ELSE "many_pub"
               /\ fp_read' = fq_read_idx
               /\ UNCHANGED <<fp_ret, fp_i, fp_data, fp_write, fp_entry, fp_done>>
          ELSE FQPushReturn(FALSE)
    /\ UNCHANGED <<fq_read_idx, fq_write_idx, fq_buffer, fq_pushed>>
    /\ UNCHANGED fqConsVars
    /\ UNCHANGED <<rcuVars, slVars, spscVars, mcVars, arVars>>

\* PushMany: buffer[(write + i) % N] = data[i]; ++i
PushManyCopy ==
    /\ fp_pc = "many_copy"
    /\ fq_buffer' = [fq_buffer EXCEPT ![FQOffset(fp_write, fp_i)] = fp_data[fp_i + 1]]
    /\ fp_i' = fp_i + 1
    /\ fp_pc' = IF fp_i + 1 < Len(fp_data) THEN "many_copy" ELSE "many_pub"
    /\ UNCHANGED <<fq_read_idx, fq_write_idx, fp_data, fp_write, fp_read, fp_ret,
                   fp_entry, fp_done, fq_pushed>>
    /\ UNCHANGED fqConsVars
    /\ UNCHANGED <<rcuVars, slVars, spscVars, mcVars, arVars>>

\* PushMany: write_idx.fetch_add(data.size(), release); return true
PushManyPublish ==
    /\ fp_pc = "many_pub"
    /\ fq_write_idx' = fq_write_idx + Len(fp_data)
    /\ fq_pushed' = fq_pushed \o fp_data
    /\ FQPushReturn(TRUE)
    /\ UNCHANGED <<fq_read_idx, fq_buffer>>
    /\ UNCHANGED fqConsVars
    /\ UNCHANGED <<rcuVars, slVars, spscVars, mcVars, arVars>>

\* a pop that removed took elements returns: the consumer is idle again
FQPopReturn(took) ==
    /\ fc_pc' = "idle"
    /\ fc_took' = took
    /\ fc_done' = <<IF fc_pc \in {"one_write", "one_pub"} THEN "PopOne" ELSE "PopMany",
                    fc_n>>
    /\ fc_n' = 0
    /\ fc_read' = 0
    /\ fc_write' = 0
    /\ fc_i' = 0
    /\ fc_payload' = <<>>

\* PopOne(): size_t read = read_idx.load(relaxed)
PopOneCall ==
    /\ fc_pc = "idle"
    /\ fc_n' = 1
    /\ fc_read' = fq_read_idx
    /\ fc_pc' = "one_write"
    /\ fc_ret' = DefaultT
    /\ fc_vec' = <<>>
    /\ fc_took' = 0
    /\ UNCHANGED <<fq_read_idx, fq_write_idx, fq_buffer, fc_write, fc_i, fc_payload,
                   fc_done, fq_popped>>
    /\ UNCHANGED fqProdVars
    /\ UNCHANGED <<rcuVars, slVars, spscVars, mcVars, arVars>>

\* PopOne: write = write_idx.load(acquire); if (read == write) return T{}
PopOneLoadWrite ==
    /\ fc_pc = "one_write"
    /\ IF fc_read = fq_write_idx
          THEN /\ FQPopReturn(0)
               /\ fc_ret' = FQEmptyResult
          ELSE /\ fc_pc' = "one_copy"
               /\ fc_write' = fq_write_idx
               /\ UNCHANGED <<fc_n, fc_read, fc_i, fc_payload, fc_ret, fc_took, fc_done>>
    /\ UNCHANGED <<fq_read_idx, fq_write_idx, fq_buffer, fc_vec, fq_popped>>
    /\ UNCHANGED fqProdVars
    /\ UNCHANGED <<rcuVars, slVars, spscVars, mcVars, arVars>>

\* PopOne: T payload = buffer[read % N]
PopOneCopy ==
    /\ fc_pc = "one_copy"
    /\ fc_payload' = <<fq_buffer[FQOffset(fc_read, 0)]>>
    /\ fc_pc' = "one_pub"
    /\ UNCHANGED <<fq_read_idx, fq_write_idx, fq_buffer, fc_n, fc_read, fc_write, fc_i,
                   fc_ret, fc_vec, fc_took, fc_done, fq_popped>>
    /\ UNCHANGED fqProdVars
    /\ UNCHANGED <<rcuVars, slVars, spscVars, mcVars, arVars>>

\* PopOne: read_idx.fetch_add(1, release); return payload
PopOnePublish ==
    /\ fc_pc = "one_pub"
    /\ fq_read_idx' = fq_read_idx + 1
    /\ fq_popped' = fq_popped \o fc_payload
    /\ fc_ret' = fc_payload[1]
    /\ FQPopReturn(1)
    /\ UNCHANGED <<fq_write_idx, fq_buffer, fc_vec>>
    /\ UNCHANGED fqProdVars
    /\ UNCHANGED <<rcuVars, slVars, spscVars, mcVars, arVars>>

\* PopMany(num_elements): size_t read = read_idx.load(relaxed)
PopManyCall ==
    /\ fc_pc = "idle"
    /\ \E n \in 0..MaxSpan : fc_n' = n
    /\ fc_read' = fq_read_idx
    /\ fc_pc' = "many_write"
    /\ fc_ret' = DefaultT
    /\ fc_vec' = <<>>
    /\ fc_took' = 0
    /\ UNCHANGED <<fq_read_idx, fq_write_idx, fq_buffer, fc_write, fc_i, fc_payload,
                   fc_done, fq_popped>>
    /\ UNCHANGED fqProdVars
    /\ UNCHANGED <<rcuVars, slVars, spscVars, mcVars, arVars>>

\* PopMany: write = write_idx.load(acquire);
\*          if (read == write) return {}; if (read + num_elements > write) return {};
\*          std::vector<T> payload(num_elements); the for loop is entered
PopManyLoadWrite ==
    /\ fc_pc = "many_write"
    /\ IF fc_read = fq_write_idx \/ FQTooFew(fc_read, fc_n, fq_write_idx)
          THEN /\ FQPopReturn(0)
               /\ fc_vec' = <<>>
          ELSE /\ fc_write' = fq_write_idx
               /\ fc_payload' = [i \in 1..fc_n |-> DefaultT]
               /\ fc_pc' = IF 0 < fc_n THEN "many_copy" ELSE "many_pub"
               /\ UNCHANGED <<fc_n, fc_read, fc_i, fc_vec, fc_took, fc_done>>
    /\ UNCHANGED <<fq_read_idx, fq_write_idx, fq_buffer, fc_ret, fq_popped>>
    /\ UNCHANGED fqProdVars
    /\ UNCHANGED <<rcuVars, slVars, spscVars, mcVars, arVars>>

\* PopMany: payload[i] = buffer[(read + i) % N]; ++i
PopManyCopy ==
    /\ fc_pc = "many_copy"
    /\ fc_payload' = [fc_payload EXCEPT ![fc_i + 1] = fq_buffer[FQOffset(fc_read, fc_i)]]
    /\ fc_i' = fc_i + 1
    /\ fc_pc' = IF fc_i + 1 < fc_n THEN "many_copy" ELSE "many_pub"
    /\ UNCHANGED <<fq_read_idx, fq_write_idx, fq_buffer, fc_n, fc_read, fc_write,
                   fc_ret, fc_vec, fc_took, fc_done, fq_popped>>
    /\ UNCHANGED fqProdVars
    /\ UNCHANGED <<rcuVars, slVars, spscVars, mcVars, arVars>>

\* PopMany: read_idx.fetch_add(num_elements, release); return payload
PopManyPublish ==
    /\ fc_pc = "many_pub"
    /\ fq_read_idx' = fq_read_idx + fc_n
    /\ fq_popped' = fq_popped \o fc_payload
    /\ fc_vec' = fc_payload
    /\ FQPopReturn(fc_n)
    /\ UNCHANGED <<fq_write_idx, fq_buffer, fc_ret>>
    /\ UNCHANGED fqProdVars
    /\ UNCHANGED <<rcuVars, slVars, spscVars, mcVars, arVars>>

(***************************************************************************)
(* --------------------------  SPMCMulticast<N>  ------------------------  *)
(***************************************************************************)

\* The queue has the capacity N and the frames of SPSC<N>; its CopyIn is the
\* helper of ring_buffer_utils.hpp, the same two memcpy calls as SPSC::CopyIn.
\* Pop and MCConsumer::TryRead have empty bodies: no consumer stores to the
\* counters or to the buffer, so the producer is the only thread that acts.

\* Push: write_local_ctr += total_size
BumpLocal(ctr, total) == ctr + total

\* Push: if (write - read + total_size > N) return false, negated
MCHasRoomStrict(write, read, total) == ~(write - read + total >= N)
MCHasRoom(write, read, total) == ~(write - read + total > N)

\* read_idx{0}, write_idx{0}, write_local_ctr{0}; buffer as zeroed storage
MCInit ==
    /\ mc_read_idx = 0
    /\ mc_write_idx = 0
    /\ write_local_ctr = 0
    /\ mc_buffer = [i \in 0..(N - 1) |-> 0]
    /\ mp_pc = "idle"
    /\ mp_data = <<>>
    /\ mp_write = 0
    /\ mp_read = 0
    /\ mp_ret = FALSE
    /\ mp_entry = <<0, 0, 0>>
    /\ mp_log = <<>>

\* Push returns result: the producer is idle again
MCPushReturn(result) ==
    /\ mp_pc' = "idle"
    /\ mp_ret' = result
    /\ mp_log' = Append(mp_log, <<Len(mp_data), result>>)

\* the producer calls Push(data)
MCPushCall ==
    /\ mp_pc = "idle"
    /\ Len(mp_log) < MaxPushes
    /\ \E d \in Payloads : mp_data' = d
    /\ mp_pc' = "size"
    /\ mp_entry' = <<mc_read_idx, mc_write_idx, write_local_ctr>>
    /\ UNCHANGED <<mc_read_idx, mc_write_idx, write_local_ctr, mc_buffer, mp_write,
                   mp_read, mp_ret, mp_log>>
    /\ UNCHANGED <<rcuVars, slVars, spscVars, fqVars, arVars>>

\* Push: if (total_size > N) return false; write_local_ctr += total_size
MCPushBump ==
    /\ mp_pc = "size"
    /\ IF FitsAtAll(TotalSize(Len(mp_data)))
          THEN /\ write_local_ctr' = BumpLocal(write_local_ctr, TotalSize(Len(mp_data)))
               /\ mp_pc' = "lw"
               /\ UNCHANGED <<mp_ret, mp_log>>
          ELSE /\ MCPushReturn(FALSE)
               /\ UNCHANGED write_local_ctr
    /\ UNCHANGED <<mc_read_idx, mc_write_idx, mc_buffer, mp_data, mp_write, mp_read,
                   mp_entry>>
    /\ UNCHANGED <<rcuVars, slVars, spscVars, fqVars, arVars>>

\* Push: size_t write = write_idx.load()
MCPushLoadWrite ==
    /\ mp_pc = "lw"
    /\ mp_write' = mc_write_idx
    /\ mp_pc' = "lr"
    /\ UNCHANGED <<mc_read_idx, mc_write_idx, write_local_ctr, mc_buffer, mp_data,
                   mp_read, mp_ret, mp_entry, mp_log>>
    /\ UNCHANGED <<rcuVars, slVars, spscVars, fqVars, arVars>>

\* Push: size_t read = read_idx.load();
\*       if (write - read + total_size > N) return false
MCPushLoadRead ==
    /\ mp_pc = "lr"
    /\ mp_read' = mc_read_idx
    /\ IF MCHasRoom(mp_write, mc_read_idx, TotalSize(Len(mp_data)))
          THEN /\ mp_pc' = "pubw"
               /\ UNCHANGED <<mp_ret, mp_log>>
          ELSE MCPushReturn(FALSE)
    /\ UNCHANGED <<mc_read_idx, mc_write_idx, write_local_ctr, mc_buffer, mp_data,
                   mp_write, mp_entry>>
    /\ UNCHANGED <<rcuVars, slVars, spscVars, fqVars, arVars>>

\* Push that moves the read counter up together with the write counter
MCPushStoreBoth ==
    /\ mp_pc = "pubw"
    /\ mc_write_idx' = write_local_ctr
    /\ mc_read_idx' = write_local_ctr
    /\ mp_pc' = "hdr"
    /\ UNCHANGED <<write_local_ctr, mc_buffer, mp_data, mp_write, mp_read, mp_ret,
                   mp_entry, mp_log>>
    /\ UNCHANGED <<rcuVars, slVars, spscVars, fqVars, arVars>>

\* Push: size_t offset = write % N; write_idx.store(write_local_ctr)
MCPushStoreWrite ==
    /\ mp_pc = "pubw"
    /\ mc_write_idx' = write_local_ctr
    /\ mp_pc' = "hdr"
    /\ UNCHANGED <<mc_read_idx, write_local_ctr, mc_buffer, mp_data, mp_write, mp_read,
                   mp_ret, mp_entry, mp_log>>
    /\ UNCHANGED <<rcuVars, slVars, spscVars, fqVars, arVars>>

\* Push: CopyIn(&buffer, offset, payload_size, HEADER_SIZE), first memcpy
MCPushCopyHeader ==
    /\ mp_pc = "hdr"
    /\ mc_buffer' = CopyInFirst(mc_buffer, mp_write % N, EncodeSize(Len(mp_data)),
                                HEADER_SIZE)
    /\ mp_pc' = IF CopyWraps(mp_write % N, HEADER_SIZE) THEN "hdr2" ELSE "pay"
    /\ UNCHANGED <<mc_read_idx, mc_write_idx, write_local_ctr, mp_data, mp_write,
                   mp_read, mp_ret, mp_entry, mp_log>>
    /\ UNCHANGED <<rcuVars, slVars, spscVars, fqVars, arVars>>

\* Push: CopyIn(&buffer, offset, payload_size, HEADER_SIZE), second memcpy
MCPushCopyHeaderWrap ==
    /\ mp_pc = "hdr2"
    /\ mc_buffer' = CopyInRest(mc_buffer, mp_write % N, EncodeSize(Len(mp_data)),
                               HEADER_SIZE)
    /\ mp_pc' = "pay"
    /\ UNCHANGED <<mc_read_idx, mc_write_idx, write_local_ctr, mp_data, mp_write,
                   mp_read, mp_ret, mp_entry, mp_log>>
    /\ UNCHANGED <<rcuVars, slVars, spscVars, fqVars, arVars>>

\* Push: CopyIn(&buffer, offset + HEADER_SIZE, data.data(), payload_size),
\* first memcpy
MCPushCopyPayload ==
    /\ mp_pc = "pay"
    /\ mc_buffer' = CopyInFirst(mc_buffer, (mp_write % N) + HEADER_SIZE, mp_data,
                                Len(mp_data))
    /\ mp_pc' = IF CopyWraps((mp_write % N) + HEADER_SIZE, Len(mp_data))
                  THEN "pay2" ELSE "pubr"
    /\ UNCHANGED <<mc_read_idx, mc_write_idx, write_local_ctr, mp_data, mp_write,
                   mp_read, mp_ret, mp_entry, mp_log>>
    /\ UNCHANGED <<rcuVars, slVars, spscVars, fqVars, arVars>>

\* Push: CopyIn(&buffer, offset + HEADER_SIZE, data.data(), payload_size),
\* second memcpy
MCPushCopyPayloadWrap ==
    /\ mp_pc = "pay2"
    /\ mc_buffer' = CopyInRest(mc_buffer, (mp_write % N) + HEADER_SIZE, mp_data,
                               Len(mp_data))
    /\ mp_pc' = "pubr"
    /\ UNCHANGED <<mc_read_idx, mc_write_idx, write_local_ctr, mp_data, mp_write,
                   mp_read, mp_ret, mp_entry, mp_log>>
    /\ UNCHANGED <<rcuVars, slVars, spscVars, fqVars, arVars>>

\* Push that leaves the read counter where it was
MCPushStoreReadStale ==
    /\ mp_pc = "pubr"
    /\ MCPushReturn(TRUE)
    /\ UNCHANGED <<mc_read_idx, mc_write_idx, write_local_ctr, mc_buffer, mp_data,
                   mp_write, mp_read, mp_entry>>
    /\ UNCHANGED <<rcuVars, slVars, spscVars, fqVars, arVars>>

\* Push: read_idx.store(write_local_ctr); return true
MCPushStoreRead ==
    /\ mp_pc = "pubr"
    /\ mc_read_idx' = write_local_ctr
    /\ MCPushReturn(TRUE)
    /\ UNCHANGED <<mc_write_idx, write_local_ctr, mc_buffer, mp_data, mp_write, mp_read,
                   mp_entry>>
    /\ UNCHANGED <<rcuVars, slVars, spscVars, fqVars, arVars>>

(***************************************************************************)
(* ---------------------------  ArenaAllocator  -------------------------  *)
(***************************************************************************)

\* ArenaAllocator allocator(arena_size): the arena holds ArenaSize bytes
ArenaSize == 8
\* allocate is called at most this many times, directly or by make_*_arena
MaxAllocs == 3

\* <<sizeof(T), alignof(T)>> of the types constructed in the arena:
\* char, short and int
ArenaTypes == {<<1, 1>>, <<2, 2>>, <<4, 4>>}
\* the sizes allocate is called with directly
RawSizes == 1..3
\* alignof(std::max_align_t), the default alignment of allocate
MaxAlign == 16
\* the alignments allocate is called with directly
RawAlignments == {1, 2, 4, MaxAlign}

\* allocate: padding = (alignment - (current_offset % alignment)) % alignment
Padding(offset, alignment) == (alignment - (offset % alignment)) % alignment

\* allocate: current_offset += padding; raw_ptr = data.data() + current_offset
BlockStart(offset, alignment) == offset + Padding(offset, alignment)

\* allocate: current_offset += size
OffsetAfter(offset, size, alignment) == BlockStart(offset, alignment) + size

\* deleter: allocator.current_offset -= sizeof(T)
OffsetReleased(offset, size) == offset - size

\* data(arena_size), current_offset(0); nothing has been allocated.
\* The bytes of the arena are not part of the state: a block is the range of
\* offsets [start, start + size) that allocate returned, with the alignment
\* that was asked for and the kind of pointer that owns it.
ArenaInit ==
    /\ current_offset = 0
    /\ ar_blocks = {}
    /\ ar_calls = 0

\* allocate(size, alignment), and the block handed to an owner of kind owner
AllocateFor(owner, size, alignment) ==
    /\ ar_calls < MaxAllocs
    /\ ar_calls' = ar_calls + 1
    /\ current_offset' = OffsetAfter(current_offset, size, alignment)
    /\ ar_blocks' = ar_blocks \cup
                      {[id |-> ar_calls + 1, owner |-> owner,
                        start |-> BlockStart(current_offset, alignment),
                        size |-> size, align |-> alignment]}

\* a client calls allocate(size, alignment) and keeps the raw pointer
ArenaAllocate ==
    /\ \E size \in RawSizes, alignment \in RawAlignments :
          AllocateFor("raw", size, alignment)
    /\ UNCHANGED <<rcuVars, slVars, spscVars, fqVars, mcVars>>

\* make_unique_arena<T>(allocator, args...)
MakeUniqueArena ==
    /\ \E t \in ArenaTypes : AllocateFor("unique", t[1], t[2])
    /\ UNCHANGED <<rcuVars, slVars, spscVars, fqVars, mcVars>>

\* make_shared_arena<T>(allocator, args...)
MakeSharedArena ==
    /\ \E t \in ArenaTypes : AllocateFor("shared", t[1], t[2])
    /\ UNCHANGED <<rcuVars, slVars, spscVars, fqVars, mcVars>>

\* the deleter runs on the block b: allocator.current_offset -= sizeof(T)
Release(b) ==
    /\ current_offset' = OffsetReleased(current_offset, b.size)
    /\ ar_blocks' = ar_blocks \ {b}
    /\ UNCHANGED ar_calls

\* a unique_ptr returned by make_unique_arena is destroyed or reset
UniqueRelease ==
    /\ \E b \in ar_blocks : b.owner = "unique" /\ Release(b)
    /\ UNCHANGED <<rcuVars, slVars, spscVars, fqVars, mcVars>>

\* the last shared_ptr owning a block of make_shared_arena is destroyed
SharedRelease ==
    /\ \E b \in ar_blocks : b.owner = "shared" /\ Release(b)
    /\ UNCHANGED <<rcuVars, slVars, spscVars, fqVars, mcVars>>

(***************************************************************************)
(* ---------------------------  Specifications  -------------------------  *)
(***************************************************************************)

Init == RCUInit /\ SLInit /\ SPSCInit /\ FQInit /\ MCInit /\ ArenaInit

\* one writer thread and NumReaders reader threads on one RCU<T>
NextRCU ==
    \/ \E r \in Readers : ReadGuardEnter(r)
    \/ \E r \in Readers : ReadGuardLoad(r)
    \/ \E r \in Readers : ReadGuardDeref(r)
    \/ \E r \in Readers : ReadGuardExit(r)
    \/ WriteCall
    \/ UpdateLoad
    \/ UpdateCopy
    \/ UpdateMutateA
    \/ UpdateMutateB
    \/ WriteExchange
    \/ WriteSynchronize
    \/ WriteDelete
    \/ RCUDestroy

SpecRCU == Init /\ [][NextRCU]_vars

\* Every thread is scheduled again and again. A reader that has entered a read
\* scope completes the constructor and later destroys its guard; whether it
\* enters another scope is up to it. The writer takes its next step whenever
\* one is possible; for the loop of synchronize() this is granted even if
\* reader_count is 0 only now and then, which is more than a scheduler gives.
RCUFairness ==
    /\ \A r \in Readers : WF_vars(ReadGuardLoad(r)) /\ WF_vars(ReadGuardExit(r))
    /\ WF_vars(UpdateCopy) /\ WF_vars(UpdateMutateA) /\ WF_vars(UpdateMutateB)
    /\ WF_vars(WriteExchange) /\ WF_vars(WriteDelete)
    /\ SF_vars(WriteSynchronize)

SpecRCULive == Init /\ [][NextRCU]_vars /\ RCUFairness

\* one writer thread and NumSLReaders reader threads on one Seqlock<T>
NextSeqlock ==
    \/ \E r \in SLReaders : SLReadSeq1(r)
    \/ \E r \in SLReaders : SLReadRetry(r)
    \/ \E r \in SLReaders : SLReadData(r)
    \/ \E r \in SLReaders : SLReadSeq2(r)
    \/ SLWriteLoad(TheWriter)
    \/ SLWriteCas(TheWriter)
    \/ SLWriteData(TheWriter)
    \/ SLWriteSeq(TheWriter)

SpecSeqlock == Init /\ [][NextSeqlock]_vars

\* one reader thread and one writer thread that may call write() for ever
NextSeqlockLive ==
    \/ SLReadSeq1(TheReader)
    \/ SLReadRetry(TheReader)
    \/ SLReadData(TheReader)
    \/ SLReadSeq2(TheReader)
    \/ SLWriteLoad(TheWriter)
    \/ SLWriteLoadMore(TheWriter)
    \/ SLWriteCas(TheWriter)
    \/ SLWriteData(TheWriter)
    \/ SLWriteSeq(TheWriter)

\* Every thread is scheduled again and again: a read() or write() that has
\* been called takes its next step. Whether and when read() and write() are
\* called is up to the callers.
SeqlockFairness ==
    /\ WF_vars(SLReadRetry(TheReader))
    /\ WF_vars(SLReadData(TheReader))
    /\ WF_vars(SLReadSeq2(TheReader))
    /\ WF_vars(SLWriteCas(TheWriter))
    /\ WF_vars(SLWriteData(TheWriter))
    /\ WF_vars(SLWriteSeq(TheWriter))

SpecSeqlockLive == Init /\ [][NextSeqlockLive]_vars /\ SeqlockFairness

\* NumSLWriters threads that call write() concurrently, and one reader thread
NextSeqlockMW ==
    \/ SLReadSeq1(TheReader)
    \/ SLReadRetry(TheReader)
    \/ SLReadData(TheReader)
    \/ SLReadSeq2(TheReader)
    \/ \E w \in SLWriters : SLWriteLoad(w)
    \/ \E w \in SLWriters : SLWriteCas(w)
    \/ \E w \in SLWriters : SLWriteData(w)
    \/ \E w \in SLWriters : SLWriteSeq(w)

\* Every thread is scheduled again and again: a read() or write() that has
\* been called takes its next step.
SeqlockMWFairness ==
    /\ WF_vars(SLReadRetry(TheReader))
    /\ WF_vars(SLReadData(TheReader))
    /\ WF_vars(SLReadSeq2(TheReader))
    /\ \A w \in SLWriters :
          WF_vars(SLWriteCas(w)) /\ WF_vars(SLWriteData(w)) /\ WF_vars(SLWriteSeq(w))

SpecSeqlockMW == Init /\ [][NextSeqlockMW]_vars /\ SeqlockMWFairness

\* one producer thread and one consumer thread on one SPSC<N>
NextSPSC ==
    \/ PushCall
    \/ PushLoadWrite
    \/ PushLoadRead
    \/ PushCopyHeader
    \/ PushCopyHeaderWrap
    \/ PushCopyPayload
    \/ PushCopyPayloadWrap
    \/ PushStore
    \/ PopCall
    \/ PopLoadWrite
    \/ PopCopyHeader
    \/ PopCopyHeaderWrap
    \/ PopCopyPayload
    \/ PopCopyPayloadWrap
    \/ PopStore

SpecSPSC == Init /\ [][NextSPSC]_vars

\* the same threads, with a producer that may call Push again with the data
\* that was rejected
NextSPSCLive ==
    \/ PushCallExtreme
    \/ PushRetry
    \/ PushLoadWrite
    \/ PushLoadRead
    \/ PushCopyHeader
    \/ PushCopyHeaderWrap
    \/ PushCopyPayload
    \/ PushCopyPayloadWrap
    \/ PushStore
    \/ PopCall
    \/ PopLoadWrite
    \/ PopCopyHeader
    \/ PopCopyHeaderWrap
    \/ PopCopyPayload
    \/ PopCopyPayloadWrap
    \/ PopStore

\* the next step of the producer that keeps retrying: the call it is in, or
\* the repetition of the Push that was rejected for lack of space
ProducerRuns ==
    \/ PushRetry
    \/ PushLoadWrite
    \/ PushLoadRead
    \/ PushCopyHeader
    \/ PushCopyHeaderWrap
    \/ PushCopyPayload
    \/ PushCopyPayloadWrap
    \/ PushStore

\* the next step of the consumer that keeps calling Pop
ConsumerRuns ==
    \/ PopCall
    \/ PopLoadWrite
    \/ PopCopyHeader
    \/ PopCopyHeaderWrap
    \/ PopCopyPayload
    \/ PopCopyPayloadWrap
    \/ PopStore

\* Both threads are scheduled again and again. The producer completes the Push
\* it has called and keeps retrying a Push that was rejected for lack of
\* space; whether it calls Push with new data is up to it. The consumer
\* completes the Pop it has called and keeps calling Pop.
SPSCFairness == WF_vars(ProducerRuns) /\ WF_vars(ConsumerRuns)

SpecSPSCLive == Init /\ [][NextSPSCLive]_vars /\ SPSCFairness

\* one producer thread and one consumer thread on one SPSCFixedSize<T, N>
NextFixed ==
    \/ PushOneCall
    \/ PushOneLoadRead
    \/ PushOneCopy
    \/ PushOnePublish
    \/ PushManyCall
    \/ PushManyLoadRead
    \/ PushManyCopy
    \/ PushManyPublish
    \/ PopOneCall
    \/ PopOneLoadWrite
    \/ PopOneCopy
    \/ PopOnePublish
    \/ PopManyCall
    \/ PopManyLoadWrite
    \/ PopManyCopy
    \/ PopManyPublish

SpecFixed == Init /\ [][NextFixed]_vars

\* one producer thread on one SPMCMulticast<N>
NextSPMC ==
    \/ MCPushCall
    \/ MCPushBump
    \/ MCPushLoadWrite
    \/ MCPushLoadRead
    \/ MCPushStoreWrite
    \/ MCPushCopyHeader
    \/ MCPushCopyHeaderWrap
    \/ MCPushCopyPayload
    \/ MCPushCopyPayloadWrap
    \/ MCPushStoreRead

SpecSPMC == Init /\ [][NextSPMC]_vars

\* the clients of one ArenaAllocator: they allocate and release in any order
NextArena ==
    \/ ArenaAllocate
    \/ MakeUniqueArena
    \/ MakeSharedArena
    \/ UniqueRelease
    \/ SharedRelease

SpecArena == Init /\ [][NextArena]_vars

(***************************************************************************)
(* ------------------------------  Properties  --------------------------  *)
(***************************************************************************)

\* C1: no live ReadGuard holds a snapshot that points to an object that has
\* been deleted, under every interleaving of one writer calling write() and
\* update() with the reader threads.
NoUseAfterFree ==
    \A r \in Readers :
        r_pc[r] = "held" => (~stale[r] /\ snapshot[r] \in live)

\* a guard still holds the object the writer has swapped out and waits for
GuardOutlivesSwap ==
    \E r \in Readers :
        /\ r_pc[r] = "held"
        /\ w_pc = "sync"
        /\ snapshot[r] = w_old
        /\ snapshot[r] # rcu_data

\* C2: for the whole lifetime of a ReadGuard every dereference yields the
\* object, with the contents, that the guard had when it was constructed,
\* also when write() or update() swaps the current pointer meanwhile.
SnapshotStable ==
    \A r \in Readers :
        r_pc[r] = "held" =>
            /\ heap[snapshot[r]] = first[r]
            /\ last[r] # NoDeref => last[r] = first[r]

\* a guard has been dereferenced while the current object is another one
\* with other contents
GuardSeesOldValue ==
    \E r \in Readers :
        /\ r_pc[r] = "held"
        /\ last[r] # NoDeref
        /\ snapshot[r] # rcu_data
        /\ w_pc \in {"sync", "del", "idle"}
        /\ heap[rcu_data] # first[r]

\* C3: every value returned by read() is the initial value or a value that
\* was passed in full to some write() call, never a mixture of two values.
TearFree ==
    \A r \in SLReaders : sr_ret[r] # NoRet => sr_ret[r] \in written

\* a read() has returned a written value after several writes were made
ReadReturnedWrittenValue ==
    \E r \in SLReaders :
        /\ sr_ret[r] \in SLInputs
        /\ sl_writes >= 2
        /\ Cardinality(written) >= 3

IsPrefix(s, t) ==
    /\ Len(s) <= Len(t)
    /\ \A i \in 1..Len(s) : s[i] = t[i]

Frame(m) == EncodeSize(Len(m)) \o m

\* the frames of a sequence of messages, one after the other
RECURSIVE Stream(_)
Stream(ms) == IF ms = <<>> THEN <<>> ELSE Frame(Head(ms)) \o Stream(Tail(ms))

\* the bytes between read_idx and write_idx are those of the stream of frames
PublishedBytes(stream) ==
    /\ write_idx = Len(stream)
    /\ \A k \in read_idx..(write_idx - 1) : buffer[k % N] = stream[k + 1]

\* C5: a message is visible to the consumer only through the producer's
\* final store of write_idx, made after both CopyIn steps: write_idx covers
\* exactly the completed Pushes, every byte between read_idx and write_idx
\* has been copied in, and a Pop in progress reads only such bytes.
PublishedComplete ==
    /\ PublishedBytes(Stream(pushed))
    /\ p_pc \in {"hdr", "hdr2", "pay", "pay2", "publish"} => write_idx = p_write
    /\ c_pc \in {"hdr", "hdr2", "pay", "pay2", "store"} =>
          /\ c_read = read_idx
          /\ c_write <= write_idx

\* the consumer copies a message out while the producer copies the next in
PopDuringPush ==
    /\ c_pc \in {"hdr", "hdr2", "pay", "pay2"}
    /\ p_pc \in {"hdr2", "pay", "pay2", "publish"}
    /\ read_idx < write_idx

\* C6: 0 <= write_idx - read_idx <= N in every reachable state.
OccupancyBounded ==
    /\ read_idx <= write_idx
    /\ write_idx - read_idx <= N

\* the queue is full after the counters have moved on from zero
FullAfterPop ==
    /\ write_idx - read_idx = N
    /\ read_idx > 0

\* C7: a Push with 8 + len > N or occupied + 8 + len > N returns false and
\* leaves read_idx, write_idx and the buffer as they were; a Push with
\* occupied + 8 + len <= N returns true (occupied as Push computes it from
\* its loads of the two counters).
CapacityEnforced ==
    [][(p_pc # "idle" /\ p_pc' = "idle") =>
          LET total == 8 + Len(p_data)
              occupied == p_write' - p_read'
              rejected == total > N \/ occupied + total > N
          IN  /\ p_ret' = ~rejected
              /\ rejected =>
                    /\ read_idx' = read_idx
                    /\ write_idx' = p_entry[1]
                    /\ buffer' = p_entry[2]]_vars

\* a Push was rejected for lack of room and another for its size
BothRejections ==
    /\ \E i \in 1..Len(p_log) : p_log[i][1] + 8 <= N /\ ~p_log[i][2]
    /\ \E i \in 1..Len(p_log) : p_log[i][1] + 8 > N /\ ~p_log[i][2]
    /\ \E i \in 1..Len(p_log) : p_log[i][2]

\* C8: on an empty queue of capacity 16 a Push of 8 bytes succeeds, a second
\* Push of 8 bytes succeeds as well, and a third Push of 1 byte fails.
FullQueueScenario ==
    (N = 16 /\ read_idx = 0) =>
        /\ (Len(p_log) >= 1 /\ p_log[1][1] = 8) => p_log[1][2]
        /\ (Len(p_log) >= 2 /\ p_log[1][1] = 8 /\ p_log[2][1] = 8) => p_log[2][2]
        /\ (Len(p_log) >= 3 /\ p_log[1][1] = 8 /\ p_log[2][1] = 8
               /\ p_log[3][1] = 1) => ~p_log[3][2]

\* the number of bytes a sequence of messages takes in the buffer
RECURSIVE FramedLen(_)
FramedLen(ms) ==
    IF ms = <<>> THEN 0 ELSE HEADER_SIZE + Len(Head(ms)) + FramedLen(Tail(ms))

\* the counter value at which the i-th pushed message starts
StartOf(i) == FramedLen(SubSeq(pushed, 1, i - 1))

\* the i-th pushed message is split across the end of the array
IsSplit(i) == (StartOf(i) % N) + 8 + Len(pushed[i]) > N

\* C9: a message whose header or payload is split across the end of the
\* array is popped with exactly the pushed bytes (its Pop does not fail),
\* and the messages before and after it are returned unchanged, in order.
WrapAroundCorrect ==
    \A i \in 1..Len(pushed) :
        IsSplit(i) =>
            /\ \A j \in {i - 1, i, i + 1} :
                  (1 <= j /\ j <= Len(popped)) =>
                      (j <= Len(pushed) /\ popped[j] = pushed[j])
            /\ (i = Len(popped) + 1 /\ c_pc = "idle" /\ c_ret = NullOpt) =>
                  c_read = c_write

\* a split message with a payload has been popped, between two others
SplitMessagePopped ==
    \E i \in 2..(Len(popped) - 1) :
        /\ i <= Len(pushed)
        /\ IsSplit(i)
        /\ Len(popped[i]) > 0

\* C10: a Pop that finds read_idx == write_idx returns std::nullopt and
\* leaves read_idx, write_idx and the buffer unchanged, however often it is
\* repeated, also after the queue has been filled and drained.
EmptyPopIdempotent ==
    [][/\ (c_pc = "write" /\ c_pc' # "write" /\ c_read = write_idx) =>
             /\ c_pc' = "idle"
             /\ c_ret' = NullOpt
             /\ UNCHANGED <<read_idx, write_idx, buffer>>
       /\ (c_pc = "idle" /\ c_pc' = "write") =>
             UNCHANGED <<read_idx, write_idx, buffer>>]_vars

\* the queue was full, has been drained, and a Pop has then found it empty
EmptyAfterDrain ==
    /\ \E i \in 1..Len(p_log) : p_log[i][1] + 8 <= N /\ ~p_log[i][2]
    /\ popped # <<>>
    /\ popped = pushed
    /\ c_pc = "idle"
    /\ c_ret = NullOpt
    /\ read_idx = write_idx
    /\ c_read = read_idx

\* the latest successful Push took the whole capacity and has not been popped
FullFramePending ==
    /\ pushed # <<>>
    /\ 8 + Len(pushed[Len(pushed)]) = N
    /\ Len(popped) < Len(pushed)

\* C11: a Push whose framed size 8 + len is exactly N returns true if and
\* only if write_idx == read_idx when it loads the counters; while a message
\* of framed size N is queued and not yet popped, every Push that returns,
\* also one with an empty payload, returns false.
FullFrameExclusive ==
    [][(p_pc # "idle" /\ p_pc' = "idle") =>
          /\ (8 + Len(p_data) = N) => (p_ret' = (p_write' = p_read'))
          /\ FullFramePending => p_ret' = FALSE]_vars

\* a full-size message was pushed, an empty payload was then refused, and a
\* full-size message was refused on a queue that was not empty
FullFrameThenRejected ==
    /\ \E i \in 1..(Len(p_log) - 1) :
          /\ p_log[i] = <<N - 8, TRUE>>
          /\ p_log[i + 1] = <<0, FALSE>>
    /\ \E j \in 1..Len(p_log) : p_log[j] = <<N - 8, FALSE>>

\* C12: the snapshot of a ReadGuard is an object that was the current value
\* of data at some moment at or after the guard's fetch_add on reader_count;
\* neither data nor a snapshot is ever an object that a write() which has
\* returned had replaced, so a read() that begins after the return does not
\* yield it.
ReaderFresh ==
    /\ rcu_data \notin replaced
    /\ \A r \in Readers :
          r_pc[r] = "held" =>
              /\ snapshot[r] \in current_since[r]
              /\ snapshot[r] \notin replaced

\* a guard was entered after a write() had replaced the initial object and
\* returned, and another write() exchanged data between the guard's fetch_add
\* and its load
ReadAfterWriteReturned ==
    \E r \in Readers :
        /\ r_pc[r] = "held"
        /\ 1 \in replaced
        /\ Cardinality(current_since[r]) >= 2
        /\ snapshot[r] = rcu_data

\* the number of write() calls that have returned
CompletedWrites == IF sw_pc[TheWriter] = "idle" THEN sl_writes ELSE sl_writes - 1

\* the writer is between its successful compare-exchange and its final store
WriteInProgress == sw_pc[TheWriter] \in {"store", "unlock"}

\* C13: with a single writer, seq is odd exactly while a write() is between
\* its successful compare-exchange and its final store and even otherwise,
\* and every completed write() has increased seq by exactly 2.
SeqParity ==
    /\ IsOdd(seq) <=> WriteInProgress
    /\ seq = Wrap(2 * CompletedWrites + (IF WriteInProgress THEN 1 ELSE 0))

\* a second write() is in progress after the first has completed
SecondWriteInProgress ==
    /\ CompletedWrites = 1
    /\ WriteInProgress
    /\ seq = 3

\* the occupancy a push computes: write - read, read being loaded in the step
\* that refuses the push or kept in the local of a push that goes on
FQHeld == fp_write - (IF fp_pc \in {"one_read", "many_read"} THEN fq_read_idx ELSE fp_read)

\* C14: PushOne returns false, leaving read_idx, write_idx and the buffer as
\* they were, exactly when the queue holds N elements; when it holds fewer it
\* returns true and write_idx, hence the occupancy, has grown by exactly 1
\* with the element appended. (N pushes on an empty queue succeed, the next
\* one fails.)
PushOneCapacity ==
    [][(fp_pc \in {"one_read", "one_pub"} /\ fp_pc' = "idle") =>
          /\ FQHeld <= FN
          /\ fp_ret' = (FQHeld < FN)
          /\ FQHeld = FN =>
                /\ fq_read_idx' = fq_read_idx
                /\ fq_write_idx' = fp_entry[1]
                /\ fq_buffer' = fp_entry[2]
                /\ fq_pushed' = fq_pushed
          /\ FQHeld < FN =>
                /\ fq_read_idx' = fq_read_idx
                /\ fq_write_idx' = fp_entry[1] + 1
                /\ fq_pushed' = fq_pushed \o fp_data]_vars

\* the queue was filled from empty without a pop and a PushOne was then refused
FilledThenRefused ==
    /\ fq_write_idx = FN
    /\ fq_read_idx = 0
    /\ fc_done[1] = "none"
    /\ fp_pc = "idle"
    /\ fp_done = <<"PushOne", 1>>
    /\ ~fp_ret

\* C15: in every interleaving of the producer and the consumer the elements
\* removed are, in order, a prefix of the elements pushed; a PopOne that finds
\* read_idx # write_idx returns the oldest element not yet popped, also when
\* write_idx % N has wrapped to 0 while older elements are queued.
FQFifoOrder ==
    /\ IsPrefix(fq_popped, fq_pushed)
    /\ fq_read_idx = Len(fq_popped)
    /\ fq_write_idx = Len(fq_pushed)
    /\ fc_pc = "one_pub" => fc_payload = <<fq_pushed[fq_read_idx + 1]>>
    /\ (fc_pc = "idle" /\ fc_done[1] = "PopOne" /\ fc_took = 1) =>
          fc_ret = fq_pushed[Len(fq_popped)]

\* write_idx has wrapped past the end of the array while older elements are
\* queued, and a PopOne called after pops and pushes has copied out the oldest
PopOneWhileWrapped ==
    /\ fc_pc = "one_pub"
    /\ fq_write_idx > FN
    /\ 0 < fq_read_idx
    /\ fq_read_idx < FN

\* C16: PushMany of k elements appends all k, in order and at once, and
\* returns true when occupancy + k <= N, and otherwise returns false and
\* changes nothing; PopMany(n) returns the n oldest elements in push order and
\* advances read_idx by n, or, when fewer than n are queued, returns an empty
\* vector and consumes nothing; a PopMany that takes all that is queued
\* leaves the queue empty.
BatchAllOrNothing ==
    [][/\ (fp_pc \in {"many_read", "many_copy", "many_pub"}) =>
             fq_write_idx = fp_write
       /\ (fp_pc \in {"many_read", "many_pub"} /\ fp_pc' = "idle") =>
             /\ fp_ret' = (FQHeld + Len(fp_data) <= FN)
             /\ fq_read_idx' = fq_read_idx
             /\ IF FQHeld + Len(fp_data) <= FN
                   THEN /\ fq_write_idx' = fp_entry[1] + Len(fp_data)
                        /\ fq_pushed' = fq_pushed \o fp_data
                   ELSE /\ fq_write_idx' = fp_entry[1]
                        /\ fq_buffer' = fp_entry[2]
                        /\ fq_pushed' = fq_pushed
       /\ (fc_pc \in {"many_write", "many_pub"} /\ fc_pc' = "idle") =>
             LET write == IF fc_pc = "many_write" THEN fq_write_idx ELSE fc_write
             IN  /\ fq_write_idx' = fq_write_idx
                 /\ fq_buffer' = fq_buffer
                 /\ IF fc_n <= write - fc_read
                       THEN /\ fc_vec' = SubSeq(fq_pushed, fc_read + 1, fc_read + fc_n)
                            /\ fq_read_idx' = fq_read_idx + fc_n
                            /\ fq_popped' = fq_popped \o fc_vec'
                            /\ fc_read + fc_n = Len(fq_pushed) =>
                                  fq_read_idx' = fq_write_idx'
                       ELSE /\ fc_vec' = <<>>
                            /\ fq_read_idx' = fq_read_idx
                            /\ fq_popped' = fq_popped]_vars

\* a PushMany was refused for lack of room although its span fits an empty
\* queue, and a PopMany has returned a whole span, leaving the queue empty
BatchRefusedAndTaken ==
    /\ fp_pc = "idle"
    /\ fp_done = <<"PushMany", MaxSpan>>
    /\ ~fp_ret
    /\ fc_pc = "idle"
    /\ fc_done = <<"PopMany", MaxSpan>>
    /\ Len(fc_vec) = MaxSpan
    /\ fq_read_idx = fq_write_idx
    /\ fc_vec = SubSeq(fq_pushed, Len(fq_pushed) - MaxSpan + 1, Len(fq_pushed))

\* C17: PopOne on an empty queue leaves both counters unchanged and returns a
\* result that differs from the result of every PopOne that removed an
\* element.
EmptySignalDistinct ==
    (fc_pc = "idle" /\ fc_done[1] = "PopOne") =>
        /\ fc_took = 0 => fc_ret = FQEmptyResult
        /\ fc_took = 1 => fc_ret # FQEmptyResult

\* C18: if every ReadGuard is destroyed within finitely many steps of its
\* creation, then under fair scheduling every call of write() returns.
WriteReturns == (w_pc = "xchg") ~> (w_pc = "idle")

\* a step of the writer inside write()
WriterStep ==
    SLWriteCas(TheWriter) \/ SLWriteData(TheWriter) \/ SLWriteSeq(TheWriter)

\* the number of steps a write() still has to take when nothing holds it up
StepsLeft ==
    CASE sw_pc[TheWriter] = "idle" -> 0
      [] sw_pc[TheWriter] = "cas" -> 3
      [] sw_pc[TheWriter] = "store" -> 2
      [] sw_pc[TheWriter] = "unlock" -> 1

ReadReturns == (sr_pc[TheReader] # "idle") ~> (sr_pc[TheReader] = "idle")

\* C20: with one writer thread and fair scheduling of the reader and of the
\* writer, every read() call returns provided the writer calls write() only
\* finitely often.
ReadReturnsOnceWritesStop ==
    <>[](sw_pc[TheWriter] = "idle") => ReadReturns

\* a read() has to retry after the writer has returned from write()
RetryAfterWrite ==
    /\ sr_pc[TheReader] = "retry"
    /\ sw_pc[TheWriter] = "idle"
    /\ sl_writes >= 1

\* C21: a write() whose load of seq returned an odd value (another write in
\* progress) completes once the other writes have finished and no further
\* write() is called.
WaitingWriteCompletes ==
    \A w \in SLWriters :
        (sw_pc[w] = "cas" /\ IsOdd(sw_seq1[w])) ~> (sw_pc[w] = "idle")

\* the writers that are between their successful compare-exchange and their
\* final store of seq
InWindow == {w \in SLWriters : sw_pc[w] \in {"store", "unlock"}}

\* C22: when several threads call write() concurrently, at most one of them
\* is between its successful compare-exchange and its final store of seq, and
\* seq is odd exactly while there is one; so no two writers store to data in
\* the same odd-sequence window.
WritersSerialized ==
    /\ Cardinality(InWindow) <= 1
    /\ IsOdd(seq) <=> InWindow # {}
    /\ \A w \in InWindow : seq = sw_seq1[w] + 1

\* one writer is inside its window while another, which loaded seq before the
\* window opened, is about to attempt its compare-exchange
WritersRace ==
    \E w1, w2 \in SLWriters :
        /\ sw_pc[w1] = "store"
        /\ sw_pc[w2] = "cas"
        /\ sw_seq1[w2] = sw_seq1[w1]

\* read() of TheReader returns d1 at the end of an iteration in which both
\* loads of seq gave the same even number, no store to data fell between the
\* two loads, and d1 is what data holds at the second load
AcceptedWindow ==
    /\ ~IsOdd(sr_seq1[TheReader])
    /\ seq = sr_seq1[TheReader]
    /\ sr_stores = 0
    /\ sr_ret'[TheReader] = sr_d1[TheReader]
    /\ sr_ret'[TheReader] = sl_data

\* the step by which read() of TheReader returns
ReadAccepts == sr_pc[TheReader] = "seq2" /\ sr_pc'[TheReader] = "idle"

\* C23 as stated: read() returns only after an iteration in which both loads
\* of seq returned the same even number; the value it returns was the value
\* of data at a moment of the call, and no write stored to data between the
\* two accepted loads of seq.
ReadWindow == [][ReadAccepts => AcceptedWindow]_vars

\* C23: the same, provided seq has not come back to the value of the first
\* load by wrapping around, i.e. fewer than StoreCap writes (2^31 for the
\* 32-bit seq) stored to data between the two loads.
ReadWindowUnlessWrapped ==
    [][(ReadAccepts /\ sr_stores < StoreCap) => AcceptedWindow]_vars

\* a read() has accepted a written value and the writer has begun to store
\* the next one
ReadAcceptedBetweenWrites ==
    /\ sr_pc[TheReader] = "idle"
    /\ sr_ret[TheReader] \in SLInputs
    /\ sr_ret[TheReader] = sl_data
    /\ sw_pc[TheWriter] = "store"

\* the readers whose ReadGuard has been constructed (its constructor has at
\* least begun) and not yet destroyed
Guards == {r \in Readers : r_pc[r] \in {"load", "held"}}

\* C24: reader_count equals the number of ReadGuards constructed and not yet
\* destroyed; a guard is counted before it loads the pointer, it is
\* uncounted once, by its destructor, and the count never goes below zero.
ReaderCountExact ==
    /\ reader_count = Cardinality(Guards)
    /\ \A r \in Readers : snapshot[r] # Null => r \in Guards
    /\ reader_count >= 0

\* the writer waits in synchronize() while one guard is held and another has
\* been counted but has not loaded the pointer yet
TwoGuardsCounted ==
    /\ w_pc = "sync"
    /\ reader_count = 2
    /\ \E r1, r2 \in Readers : r_pc[r1] = "load" /\ r_pc[r2] = "held"

\* the mutator of update() applied to a whole value
Applied(v) == [a |-> (v.a + 1) % NumVals, b |-> (v.b + 1) % NumVals]

\* C25: with a single writer, update(f) works on a private copy of the value
\* that is current when it starts and publishes f of that value, which is
\* the current value when update returns; every value a reader obtains is a
\* complete one (both fields agree), never a half-mutated one.
UpdateAppliesToCopy ==
    /\ (w_in_update /\ w_pc \in {"copy", "mut_a", "mut_b", "xchg"}) =>
            (w_old = rcu_data /\ w_old \in live)
    /\ (w_in_update /\ w_pc \in {"mut_a", "mut_b", "xchg"}) =>
            (w_new # w_old /\ \A r \in Readers : snapshot[r] # w_new)
    /\ (w_in_update /\ w_pc \in {"sync", "del"}) =>
            (rcu_data = w_new /\ heap[rcu_data] = Applied(heap[w_old]))
    /\ \A r \in Readers : last[r] # NoDeref => last[r].a = last[r].b

\* update() has published the mutated copy while one reader still reads the
\* value from before the update and another already reads the mutated one
BothVersionsRead ==
    /\ w_in_update
    /\ w_pc = "sync"
    /\ \E r1, r2 \in Readers :
          /\ snapshot[r1] = w_old /\ last[r1] = heap[w_old]
          /\ snapshot[r2] = rcu_data /\ last[r2] = heap[rcu_data]

\* C26: with a single writer the object write() is about to delete is
\* allocated and is not the current one, and the current object is allocated
\* as long as the RCU is alive, so no object is deleted twice and the current
\* one is deleted by the destructor only; between calls the current object
\* is the only one allocated, and after the destructor none is, so every
\* object that was installed has been deleted exactly once.
ReclaimedExactlyOnce ==
    /\ w_pc = "del" => (w_old \in live /\ w_old # rcu_data)
    /\ rcu_alive => rcu_data \in live
    /\ (rcu_alive /\ w_pc = "idle") => live = {rcu_data}
    /\ ~rcu_alive => live = {}

\* the RCU has been destroyed after two writes had replaced and deleted the
\* objects installed before them
DestroyedAfterWrites ==
    /\ ~rcu_alive
    /\ Cardinality(replaced) >= 2

\* a step of the producer inside Push, and one that returns from Push
PushStep == p_pc' # p_pc
PushReturns == p_pc # "idle" /\ p_pc' = "idle"
\* a step of the consumer inside Pop, and one that returns from Pop
PopStep == c_pc' # c_pc
PopReturns == c_pc # "idle" /\ c_pc' = "idle"

\* C27: Push never writes read_idx and advances write_idx, by 8 + len of the
\* pushed payload, exactly when it returns true; Pop never writes write_idx
\* or a buffer byte and advances read_idx, by 8 + len of the returned
\* payload, exactly when it returns a payload; a failed Push and an empty
\* Pop write neither counter.
FrameEffects ==
    [][/\ PushStep =>
             /\ read_idx' = read_idx
             /\ write_idx' = IF PushReturns /\ p_ret'
                                THEN write_idx + 8 + Len(p_data) ELSE write_idx
       /\ PopStep =>
             /\ write_idx' = write_idx
             /\ buffer' = buffer
             /\ read_idx' = IF PopReturns /\ c_ret'[1] = "value"
                               THEN read_idx + 8 + Len(c_ret'[2]) ELSE read_idx]_vars

\* a Push has succeeded, a Push has failed, a Pop has returned a payload and
\* the latest Pop found the queue empty
AllFourOutcomes ==
    /\ p_pc = "idle"
    /\ c_pc = "idle"
    /\ \E i, j \in 1..Len(p_log) : p_log[i][2] /\ ~p_log[j][2]
    /\ Len(popped) >= 1
    /\ c_ret = NullOpt

\* the step of Pop that completes the copy of payload_size out of the buffer
PopHeaderCopied == c_pc \in {"hdr", "hdr2"} /\ c_pc' # c_pc /\ c_pc' # "hdr2"

\* C28: with one producer and one consumer, whenever Pop has found read_idx
\* different from write_idx the header it copies out satisfies
\* read + 8 + length <= write, and Pop does not return from the check for an
\* incomplete write.
IncompleteWriteUnreachable ==
    [][PopHeaderCopied =>
          /\ c_read + 8 + DecodeSize(c_size') <= c_write
          /\ c_pc' # "idle"]_vars

\* Pop has passed the check while the producer is in the middle of copying
\* the next message into the buffer
PopChecksDuringPush ==
    /\ c_pc \in {"pay", "store"}
    /\ p_pc \in {"pay", "pay2", "publish"}

\* the buffer cells of the counter values from .. to-1
Cells(from, to) == {k % N : k \in from..(to - 1)}

\* the cells of the messages that are published and whose Pop has not stored
\* the advanced read_idx yet
UnconsumedCells == Cells(read_idx, write_idx)

\* the cells of the frame that the Push in progress is copying in
PushCells == Cells(p_write, p_write + 8 + Len(p_data))

\* C29: the cells a Push writes are disjoint from the cells of every message
\* that is published and not yet released by the store of Pop, the message
\* the consumer is copying out included: every cell a step changes lies in
\* the frame of the Push in progress, and that frame holds no unconsumed
\* cell.
NoOverwrite ==
    [][/\ \A i \in 0..(N - 1) : buffer'[i] # buffer[i] => i \in PushCells
       /\ buffer' # buffer => p_pc \in {"hdr", "hdr2", "pay", "pay2"}
       /\ p_pc \in {"hdr", "hdr2", "pay", "pay2", "publish"} =>
              PushCells \cap UnconsumedCells = {}]_vars

\* the producer has copied a frame into the buffer while the consumer is in
\* the middle of a Pop of the message in front of it, which is still
\* unconsumed
PushBesidePop ==
    /\ p_pc \in {"pay", "publish"}
    /\ c_pc \in {"hdr", "store"}
    /\ c_read = read_idx
    /\ UnconsumedCells # {}
    /\ PushCells # {}

\* the producer has given the rejected message up and called Push with data
\* of its choice
NewPushCalled == p_pc # "idle" /\ ~p_retry

\* C30: under fair scheduling, with a producer that keeps retrying and a
\* consumer that keeps calling Pop, a Push of a message with 8 + len <= N
\* that was rejected for lack of free space succeeds in the end (unless the
\* producer gives the message up), and every message pushed is returned by
\* a Pop in the end: again and again the consumer has returned all of them.
BackPressureLive ==
    /\ RejectedForSpace ~> (p_ret \/ NewPushCalled)
    /\ []<>(Len(popped) = Len(pushed))

\* a retried Push is about to publish its message after a Pop has made room
RetrySucceeds ==
    /\ p_retry
    /\ p_pc = "publish"
    /\ Len(popped) >= 1

\* the Push in progress, or the latest Push when it returned true, has passed
\* both capacity checks: mp_write is where its frame starts
MCAccepted ==
    \/ mp_pc \in {"pubw", "hdr", "hdr2", "pay", "pay2", "pubr"}
    \/ mp_pc = "idle" /\ mp_ret

\* the buffer holds the header and the payload of the message data in the
\* cells of the frame that starts at the counter value start
FrameStored(buf, start, data) ==
    /\ \A i \in 1..8 : buf[(start + i - 1) % N] = EncodeSize(Len(data))[i]
    /\ \A i \in 1..Len(data) : buf[(start + 8 + i - 1) % N] = data[i]

\* C31 as stated: in the SPMC variant write_idx has its new value only once
\* the header and the payload of the message have been completely copied
\* into the buffer.
WritePublishedAfterCopy ==
    (MCAccepted /\ mc_write_idx # mp_entry[2]) =>
        FrameStored(mc_buffer, mp_write, mp_data)

\* C31: it is read_idx, the counter that is moved last, that has its new
\* value only once the header and the payload of the message have been
\* completely copied into the buffer; write_idx has its new value during
\* the whole copy.
ReadPublishedAfterCopy ==
    /\ (MCAccepted /\ mc_read_idx # mp_entry[1]) =>
           FrameStored(mc_buffer, mp_write, mp_data)
    /\ mp_pc \in {"hdr", "hdr2", "pay", "pay2", "pubr"} =>
           mc_write_idx = mp_entry[2] + 8 + Len(mp_data)

\* a Push has returned true for a message whose frame wraps around the end
\* of the array, after both counters moved
WrappedFramePublished ==
    /\ mp_pc = "idle"
    /\ mp_ret
    /\ mc_read_idx # mp_entry[1]
    /\ (mp_write % N) + 8 + Len(mp_data) > N

\* Push is at one of its memcpy calls or at the store of read_idx after them
MCCopying == mp_pc \in {"hdr", "hdr2", "pay", "pay2", "pubr"}

\* C32: read_idx <= write_idx in every state; the counters are equal when
\* no Push is in progress; within a Push that succeeds write_idx is moved
\* first, then the data is copied, then read_idx is moved up to write_idx:
\* the buffer changes only while [read_idx, write_idx) is the frame of the
\* Push, and only inside that frame.
CounterProtocol ==
    /\ [](/\ mc_read_idx <= mc_write_idx
          /\ mp_pc = "idle" => mc_read_idx = mc_write_idx
          /\ mp_pc \in {"size", "lw", "lr", "pubw"} =>
                 (mc_read_idx = mp_entry[1] /\ mc_write_idx = mp_entry[2])
          /\ MCCopying =>
                 /\ mc_read_idx = mp_write
                 /\ mc_write_idx = mp_write + 8 + Len(mp_data)
          /\ (mp_pc = "idle" /\ mp_ret) =>
                 mc_read_idx = mp_write + 8 + Len(mp_data))
    /\ [][mc_buffer' # mc_buffer =>
            /\ MCCopying
            /\ mc_read_idx' = mc_read_idx /\ mc_write_idx' = mc_write_idx
            /\ \A i \in 0..(N - 1) : mc_buffer'[i] # mc_buffer[i] =>
                   \E k \in mc_read_idx..(mc_write_idx - 1) : k % N = i]_vars

\* a second Push is in the middle of its copy: the counters differ by the
\* size of its frame
MidCopy ==
    /\ mp_pc = "pay"
    /\ Len(mp_log) >= 1
    /\ mc_read_idx > 0
    /\ mc_read_idx < mc_write_idx

\* C33: Push is never rejected for lack of space. When no Push is running
\* write_idx, read_idx and write_local_ctr are equal; every Push returns
\* true exactly when 8 + len <= N; and a Push that returns false has not
\* advanced write_local_ctr.
NeverRejectedForSpace ==
    /\ mp_pc \in {"idle", "size"} =>
           (mc_write_idx = mc_read_idx /\ mc_read_idx = write_local_ctr)
    /\ \A i \in 1..Len(mp_log) : mp_log[i][2] <=> (8 + mp_log[i][1] <= N)
    /\ (mp_pc = "idle" /\ ~mp_ret) => write_local_ctr = mp_entry[3]

\* a Push of a frame as large as the whole queue has returned true although
\* frames were pushed before it and no consumer has read anything
FullFrameAfterOthers ==
    /\ mp_pc = "idle"
    /\ mp_ret
    /\ 8 + Len(mp_data) = N
    /\ mp_entry[2] > 0

\* blocks b and c share at least one byte
Overlap(b, c) == b.start < c.start + c.size /\ c.start < b.start + b.size

\* C34: every block returned and not yet released starts at an offset that
\* is a multiple of the alignment asked for, lies within the ArenaSize bytes
\* of the arena, and overlaps no other block that is not yet released.
BlocksValid ==
    \A b \in ar_blocks :
        /\ b.start % b.align = 0
        /\ b.start + b.size <= ArenaSize
        /\ \A c \in ar_blocks : c.id # b.id => ~Overlap(b, c)

====
